---- MODULE Spec2Model ----
(***************************************************************************)
(* The audio resource manager of aws-polly-client.js (src/unnamed/part_001) *)
(* as a state machine: speakText, the circuit breaker, the concurrency     *)
(* manager with its fade-out, the backlog and its drain loop, the browser   *)
(* events of each audio element, the autoplay recovery and stopAllAudio;    *)
(* and the game of app.js that uses it: the thought bubbles with their      *)
(* timers, the spawn intervals, startGame, endGame and restartGame.         *)
(*                                                                         *)
(* JavaScript runs one task at a time, so every action below is one task:  *)
(* a call of an exported function, the continuation of an await, a timer    *)
(* callback or a DOM event handler, run to its next suspension point.       *)
(* Continuations that are only microtask hops (an await of an already       *)
(* settled promise) belong to the task that settled the promise.            *)
(***************************************************************************)
EXTENDS Integers, Sequences, FiniteSets

\* ------------------------------------------------------------------ bounds

\* Request slots that can be alive at the same time (a request in flight, or
\* an audio element that still has callbacks pending).
MaxLive == 3
\* speakText calls in one behaviour (performanceMetrics.totalRequests).
MaxCalls == 3
\* speakText calls in one behaviour of the specification of the circuit breaker.
MaxCallsBreaker == 7
\* speakText calls in one behaviour of the specification of the long texts.
MaxCallsText == 2
\* speakText calls in one behaviour of the specification of the settings.
MaxCallsConfig == 1
\* speakText calls in one behaviour of the specification of the initialization.
MaxCallsInit == 2
\* Cap of ttsErrorCount (failures keep being recorded while the breaker is open).
MaxErrors == 6
\* Pending setTimeout(() => processAudioQueue()) callbacks that are told apart.
MaxTimers == 1
\* Drain loops suspended in their pacing delay that are told apart.
MaxSleeping == 2
\* Fade-out intervals running on one element that are told apart.
MaxFades == 2
\* Calls of URL.revokeObjectURL on one blob URL that are told apart.
MaxRevokes == 2
\* Runs of playOnInteraction for one element that are told apart.
MaxRetries == 2
\* Date.now() advances in steps of TickMs, from TickMs up to MaxNow.
\* Request slots in a run with fairness.
MaxLiveFair == 2
\* Calls of speakText in a run of the game.
MaxCallsGame == 1
\* Thought bubbles on screen at the same time.
MaxThoughts == 2
\* Pending delayed calls of one kind.
MaxTimeouts == 1
\* Penalties (clicks on a positive thought) below the initial confidence.
MaxPenalties == 1
MaxLate == 2
\* The step of the game clock, in ms.
TickGameMs == 2500
TickMs == 150000
MaxNow == 600000

\* ------------------------------------------------------- program constants

MAX_ERROR_COUNT == 5
maxTextLength == 3000
maxReads == 1000
ERROR_RESET_TIME == 300000
\* lastErrorTime = null
AutoRemoveMs == 5000
NoTime == -1

Thoughts == 1..MaxThoughts
Slots == 1..MaxLive

VARIABLES
  awsConfig,            \* the object exported by config.js
  pollyClient,          \* TRUE: a PollyClient object, FALSE: null
  ttsErrorCount,
  lastErrorTime,
  activeAudioElements,  \* the Set, in insertion order
  audioQueue,           \* the backlog: slots of the queued requests, head first
  isProcessingQueue,
  audioSettings,
  performanceMetrics,
  now,                  \* Date.now()
  drainTimers,          \* pending setTimeout(() => processAudioQueue(), ...)
  drainSleeping,        \* drain loops awaiting their pacing delay
  slot,                 \* per request: its position and its audio element
  rejected,             \* history: a promise returned by speakText was rejected
  pollyInitialized,     \* app.js: the client existed when the page loaded
  gameState,            \* app.js: the game, with its Set of active thoughts
  thoughts,             \* app.js: the thought bubbles, with their timers
  gameTimers,           \* app.js: delayed calls pending, spawn intervals leaked
  lateSends             \* pollyClient.send() promises pending after their timeout

vars == <<awsConfig, pollyClient, ttsErrorCount, lastErrorTime, activeAudioElements,
          audioQueue, isProcessingQueue, audioSettings, performanceMetrics,
          now, drainTimers, drainSleeping, slot, rejected,
          pollyInitialized, gameState, thoughts, gameTimers, lateSends>>

\* ----------------------------------------------------------------- helpers

Min(a, b) == IF a < b THEN a ELSE b
Max(a, b) == IF a > b THEN a ELSE b
\* A counter of performanceMetrics goes up by one. In a run without a bound
\* on the calls the counters, which the program only reports, are exact up
\* to the bound and stay there.
Counted(env, n) == IF env.saturate THEN Min(n + 1, env.calls) ELSE n + 1
Range(s) == {s[i] : i \in 1..Len(s)}
Without(s, x) == SelectSeq(s, LAMBDA y : y # x)

\* A slot nobody uses. pc: "free", "queued" (in audioQueue), "sending"
\* (awaiting Promise.race of the remote call and the 10 s timer), "reading"
\* (awaiting streamToUint8Array), "starting" (awaiting the play() promise),
\* "settled" (synthesizeAndPlayAudio returned; the element may live on).
FreeSlot ==
  [pc |-> "free",
   viaQueue |-> FALSE,   \* a drain loop awaits processAudioRequest of this request
   text |-> <<>>,        \* the text passed to speakText
   sent |-> <<>>,        \* synthesizeParams.Text
   resolved |-> FALSE,   \* the promise speakText returned for it has resolved
   el |-> FALSE,         \* new Audio() was created
   paused |-> TRUE, ended |-> FALSE, error |-> FALSE,
   rewound |-> FALSE,    \* stopAllAudio set currentTime = 0
   pauseEvt |-> FALSE,   \* a 'pause' event is queued for dispatch
   fades |-> 0,          \* running fadeInterval timers on the element
   listening |-> {},     \* the events playOnInteraction is registered for
   expiry |-> FALSE,     \* the 30 s timer of handleAutoplayBlocked is pending
   retry |-> FALSE,      \* the play() promise of playOnInteraction is pending
   revoked |-> 0,        \* calls of URL.revokeObjectURL(audioUrl) so far
   stale |-> FALSE,      \* history: the request was issued before a stopAllAudio
   evicts |-> 0,         \* history: queued behind this playing element at limit 1
   elders |-> {},        \* history: the elements alive when this one was created
   retries |-> 0]        \* history: runs of playOnInteraction for the element

\* The module-level state as one value, so that a handler is a composition of
\* the functions it calls.
Cur ==
  [config |-> awsConfig, client |-> pollyClient, errCount |-> ttsErrorCount, lastErr |-> lastErrorTime,
   active |-> activeAudioElements, queue |-> audioQueue,
   processing |-> isProcessingQueue, settings |-> audioSettings,
   metrics |-> performanceMetrics, now |-> now, timers |-> drainTimers,
   sleeping |-> drainSleeping, slot |-> slot, rejected |-> rejected,
   polly |-> pollyInitialized, game |-> gameState, thoughts |-> thoughts,
   gameTimers |-> gameTimers, late |-> lateSends]

Commit(st) ==
  /\ awsConfig' = st.config
  /\ pollyClient' = st.client
  /\ ttsErrorCount' = st.errCount
  /\ lastErrorTime' = st.lastErr
  /\ activeAudioElements' = st.active
  /\ audioQueue' = st.queue
  /\ isProcessingQueue' = st.processing
  /\ audioSettings' = st.settings
  /\ performanceMetrics' = st.metrics
  /\ now' = st.now
  /\ drainTimers' = st.timers
  /\ drainSleeping' = st.sleeping
  /\ slot' = st.slot
  /\ rejected' = st.rejected
  /\ pollyInitialized' = st.polly
  /\ gameState' = st.game
  /\ thoughts' = st.thoughts
  /\ gameTimers' = st.gameTimers
  /\ lateSends' = st.late

\* ------------------------------------------------- browser and small steps

\* URL.revokeObjectURL(audioUrl)
Revoke(st, s) == [st EXCEPT !.slot[s].revoked = Min(@ + 1, MaxRevokes)]

\* activeAudioElements.delete(audioElement)
Delete(st, s) == [st EXCEPT !.active = Without(@, s)]

\* activeAudioElements.add(audioElement)
Add(st, s) ==
  IF s \in Range(st.active) THEN st ELSE [st EXCEPT !.active = Append(@, s)]

\* setTimeout(() => processAudioQueue(), ...)
ScheduleDrain(st) == [st EXCEPT !.timers = Min(@ + 1, MaxTimers)]

\* audioElement.pause(): a playing element becomes paused and its 'pause'
\* event is queued; a paused element is left alone.
PauseElement(st, s) ==
  IF st.slot[s].paused THEN st
  ELSE [st EXCEPT !.slot[s].paused = TRUE, !.slot[s].pauseEvt = TRUE]

\* The body shared by the 'error', 'ended' and 'pause' listeners.
CleanupListener(st, s) == ScheduleDrain(Revoke(Delete(st, s), s))

\* ---------------------------------------------------------- circuit breaker

\* A variant: the cooldown counts as elapsed at exactly ERROR_RESET_TIME.
CooldownElapsedAtLimit(st) ==
  /\ st.lastErr # NoTime /\ st.lastErr # 0
  /\ st.now - st.lastErr >= ERROR_RESET_TIME

CooldownElapsed(st) ==
  /\ st.lastErr # NoTime /\ st.lastErr # 0
  /\ st.now - st.lastErr > ERROR_RESET_TIME

\* isTtsTemporarilyDisabled: the value it returns ...
TtsDisabled(st) ==
  /\ st.errCount >= MAX_ERROR_COUNT
  /\ ~CooldownElapsed(st)

\* A variant: the check resets the count and keeps the time of the last
\* error.
AfterDisabledCheckKeepsTime(st) ==
  IF st.errCount >= MAX_ERROR_COUNT /\ CooldownElapsed(st)
  THEN [st EXCEPT !.errCount = 0]
  ELSE st

\* ... and the state it leaves.
AfterDisabledCheck(st) ==
  IF st.errCount >= MAX_ERROR_COUNT /\ CooldownElapsed(st)
  THEN [st EXCEPT !.errCount = 0, !.lastErr = NoTime]
  ELSE st

recordTtsError(st) == [st EXCEPT !.errCount = @ + 1, !.lastErr = st.now]

\* The state the queries leave: getTtsStatus() evaluates
\* isTtsTemporarilyDisabled() for its result, isPollyAvailable() does when
\* there is a client, getAudioStatus() copies what it reports.
GetTtsStatus(st) == AfterDisabledCheck(st)
IsPollyAvailable(st) == IF st.client THEN AfterDisabledCheck(st) ELSE st
GetAudioStatus(st) == st

\* ------------------------------------------------------ concurrency manager

fadeOutAudio(st, s) ==
  IF st.slot[s].paused THEN st
  ELSE [st EXCEPT !.slot[s].fades = Min(@ + 1, MaxFades)]

Finished(st, s) == st.slot[s].ended \/ st.slot[s].error \/ st.slot[s].paused

RECURSIVE RemoveAll(_, _)
RemoveAll(st, toRemove) ==
  IF toRemove = {} THEN st
  ELSE LET s == CHOOSE x \in toRemove : TRUE
       IN RemoveAll(Revoke(Delete(st, s), s), toRemove \ {s})

manageAudioConcurrency(st) ==
  LET st1 == RemoveAll(st, {s \in Range(st.active) : Finished(st, s)})
  IN IF Len(st1.active) >= st1.settings.maxConcurrentAudio
     THEN fadeOutAudio(st1, Head(st1.active))
     ELSE st1

\* ------------------------------------------------------------ the drain loop

\* A variant: the loop ends without looking at the queue again.
LoopExitSilent(st) == [st EXCEPT !.processing = FALSE]

\* The end of processAudioQueue: the while condition failed.
LoopExit(st) ==
  LET st1 == [st EXCEPT !.processing = FALSE]
  IN IF Len(st1.queue) > 0 THEN ScheduleDrain(st1) ELSE st1

\* After `await processAudioRequest(queueItem)`: pace, or leave the loop.
LoopResume(st) ==
  IF Len(st.queue) > 0
  THEN [st EXCEPT !.sleeping = Min(@ + 1, MaxSleeping)]
  ELSE LoopExit(st)

\* synthesizeAndPlayAudio returns for the request in slot s: speakText
\* returns, or processAudioRequest calls resolve(), so the promise of the
\* request resolves. A request without an element leaves nothing behind. A
\* drain loop awaiting it goes on.
Return(st, s) ==
  LET st1 == IF st.slot[s].el
             THEN [st EXCEPT !.slot[s].pc = "settled",
                             !.slot[s].viaQueue = FALSE,
                             !.slot[s].resolved = TRUE]
             ELSE [st EXCEPT !.slot[s] = FreeSlot]
  IN IF st.slot[s].viaQueue THEN LoopResume(st1) ELSE st1

\* synthesizeAndPlayAudio throws for the request in slot s: speakText throws
\* the error again and processAudioRequest calls reject(error), so the promise
\* of the request is rejected. The drain loop goes on as after a return.
Throw(st, s) ==
  [Return([st EXCEPT !.rejected = TRUE], s) EXCEPT !.slot[s].resolved = FALSE]

\* The error types the outer catch block of synthesizeAndPlayAudio records.
RecordedFailures ==
  {"TIMEOUT", "CREDENTIALS", "NETWORK", "RATE_LIMIT", "SERVICE", "UNKNOWN"}

\* A variant: the outer catch block throws the error again.
CatchBlockRethrows(st, s, errorType) ==
  LET st1 == IF errorType = "CREDENTIALS" THEN [st EXCEPT !.client = FALSE] ELSE st
      st2 == IF errorType \in RecordedFailures THEN recordTtsError(st1) ELSE st1
  IN Throw(st2, s)

\* The outer catch block of synthesizeAndPlayAudio, for an error it classifies
\* as errorType: it records all types but PARAMETER, drops the client on
\* CREDENTIALS, and does not throw.
CatchBlock(st, s, errorType) ==
  LET st1 == IF errorType = "CREDENTIALS" THEN [st EXCEPT !.client = FALSE] ELSE st
      st2 == IF errorType \in RecordedFailures THEN recordTtsError(st1) ELSE st1
  IN Return(st2, s)

RECURSIVE TrimStart(_)
TrimStart(cs) ==
  IF cs # <<>> /\ Head(cs) = " " THEN TrimStart(Tail(cs)) ELSE cs

RECURSIVE TrimEnd(_)
TrimEnd(cs) ==
  IF cs # <<>> /\ cs[Len(cs)] = " "
  THEN TrimEnd(SubSeq(cs, 1, Len(cs) - 1)) ELSE cs

\* String.prototype.trim
Trim(cs) == TrimEnd(TrimStart(cs))

\* A variant: the length check keeps one unit less.
TruncateBelowLimit(cs) ==
  IF Len(cs) > maxTextLength THEN SubSeq(cs, 1, maxTextLength - 1) ELSE cs

\* if (text.length > maxTextLength) text = text.substring(0, maxTextLength)
Truncate(cs) ==
  IF Len(cs) > maxTextLength THEN SubSeq(cs, 1, maxTextLength) ELSE cs

\* The Text of the synthesis command: the truncated text, trimmed.
SynthesisText(cs) == Trim(Truncate(cs))

\* The start of synthesizeAndPlayAudio up to its first await. With
\* pollyClient null, pollyClient.send throws inside the try block and the
\* catch block classifies the TypeError as UNKNOWN.
Synthesize(st, s, queued) ==
  LET st1 == [st EXCEPT !.slot[s].pc = "sending", !.slot[s].viaQueue = queued,
                        !.slot[s].sent = SynthesisText(st.slot[s].text)]
  IN IF st1.client THEN st1 ELSE CatchBlock(st1, s, "UNKNOWN")

\* A variant: the loop takes the newest entry of the queue.
LoopCheckLast(st) ==
  IF Len(st.queue) > 0 /\ Len(st.active) < st.settings.maxConcurrentAudio
  THEN LET h == st.queue[Len(st.queue)]
           st1 == [st EXCEPT !.queue = SubSeq(@, 1, Len(@) - 1),
                             !.metrics.queuedRequests = @ - 1]
       IN Synthesize(st1, h, TRUE)
  ELSE LoopExit(st)

\* A variant: the loop also runs with the active set at the limit.
LoopCheckAtLimit(st) ==
  IF Len(st.queue) > 0 /\ Len(st.active) <= st.settings.maxConcurrentAudio
  THEN LET h == Head(st.queue)
           st1 == [st EXCEPT !.queue = Tail(@),
                             !.metrics.queuedRequests = @ - 1]
       IN Synthesize(st1, h, TRUE)
  ELSE LoopExit(st)

\* The head of the while loop of processAudioQueue.
LoopCheck(st) ==
  IF Len(st.queue) > 0 /\ Len(st.active) < st.settings.maxConcurrentAudio
  THEN LET h == Head(st.queue)
           st1 == [st EXCEPT !.queue = Tail(@),
                             !.metrics.queuedRequests = @ - 1]
       IN Synthesize(st1, h, TRUE)
  ELSE LoopExit(st)

\* processAudioQueue()
processAudioQueue(st) ==
  IF st.processing \/ Len(st.queue) = 0 THEN st
  ELSE LoopCheck([st EXCEPT !.processing = TRUE])

\* ----------------------------------------------------------------- inputs

\* What a caller may pass as text: a string over a letter and a blank, or a
\* value that is no string.
SpeakInputs ==
  {[isString |-> FALSE, chars |-> <<>>],
   [isString |-> TRUE, chars |-> <<>>],
   [isString |-> TRUE, chars |-> <<" ">>],
   [isString |-> TRUE, chars |-> <<" ", "a">>]}

\* Texts around the length limit: letters alone, one unit over the limit and
\* at the limit, and one whose unit at the limit is a blank.
LongInputs ==
  {[isString |-> TRUE, chars |-> [i \in 1..(maxTextLength + 1) |-> "a"]],
   [isString |-> TRUE, chars |-> [i \in 1..maxTextLength |-> "a"]],
   [isString |-> TRUE,
    chars |-> [i \in 1..(maxTextLength + 1) |->
                 IF i = maxTextLength THEN " " ELSE "a"]]}

\* A variant: the text is not trimmed before its length is looked at.
ValidTextUntrimmed(t) == t.isString /\ Len(t.chars) > 0

\* !(!text || typeof text !== 'string' || text.trim().length === 0)
ValidText(t) == t.isString /\ Len(t.chars) > 0 /\ Len(Trim(t.chars)) > 0

\* The settings objects passed to configureAudioSettings: a call that sets
\* the limit alone, to 1. Volumes are in tenths.
LimitInputs == {[maxConcurrentAudio |-> 1]}

\* Settings objects with one field outside or at the edge of its range, and
\* the object app.js passes on load.
ConfigInputs ==
  {[maxConcurrentAudio |-> 0], [maxConcurrentAudio |-> 11],
   [defaultVolume |-> -1], [defaultVolume |-> 11],
   [fadeOutDuration |-> -1], [fadeOutDuration |-> 5001],
   [queueProcessingDelay |-> -1], [queueProcessingDelay |-> 0],
   [maxConcurrentAudio |-> 2, defaultVolume |-> 6, fadeOutDuration |-> 300,
    queueProcessingDelay |-> 50]}

\* How the remote call ends: with a stream, with a response without one, or
\* with an error of one of the types the catch block tells apart.
SendOutcomes == {"stream", "noStream", "PARAMETER"} \cup RecordedFailures

\* The AudioStream of a response: whether getReader() gives a reader, the
\* lengths of the chunks its first reads yield, and what the reads after
\* them do: one fails, or each yields a further chunk of `tail` bytes
\* (endless), or the next one reports done.
FiniteStream(chunks, fails) ==
  [reader |-> TRUE, chunks |-> chunks, fails |-> fails, endless |-> FALSE,
   tail |-> 0]
EndlessStream(chunks, tail) ==
  [reader |-> TRUE, chunks |-> chunks, fails |-> FALSE, endless |-> TRUE,
   tail |-> tail]
BytesStreams == {FiniteStream(<<2>>, FALSE)}
StreamInputs ==
  BytesStreams \cup
  {FiniteStream(<<>>, FALSE), FiniteStream(<<0>>, FALSE),
   FiniteStream(<<0, 0>>, FALSE), FiniteStream(<<0, 3>>, FALSE),
   FiniteStream(<<2>>, TRUE)}
\* Streams that never report done, with and without bytes, and a stream
\* without a reader.
EndlessStreams ==
  {EndlessStream(<<>>, 0), EndlessStream(<<2>>, 0), EndlessStream(<<0>>, 1)}
ReaderInputs ==
  StreamInputs \cup EndlessStreams \cup
  {[reader |-> FALSE, chunks |-> <<2>>, fails |-> FALSE, endless |-> FALSE,
    tail |-> 0]}

\* The total of the chunk lengths, a half of the chunks at a time.
RECURSIVE Sum(_)
Sum(lengths) ==
  IF lengths = <<>> THEN 0
  ELSE IF Len(lengths) = 1 THEN lengths[1]
  ELSE LET half == Len(lengths) \div 2
       IN Sum(SubSeq(lengths, 1, half)) +
          Sum(SubSeq(lengths, half + 1, Len(lengths)))

\* reader.read() number n of a stream.
Read(stream, n) ==
  IF n <= Len(stream.chunks)
  THEN [threw |-> FALSE, done |-> FALSE, value |-> stream.chunks[n]]
  ELSE IF stream.fails THEN [threw |-> TRUE, done |-> FALSE, value |-> 0]
  ELSE IF stream.endless
  THEN [threw |-> FALSE, done |-> FALSE, value |-> stream.tail]
  ELSE [threw |-> FALSE, done |-> TRUE, value |-> 0]

\* Pass k of `while (readCount < maxReads)` leaves the loop: its read throws
\* or reports done.
Stops(stream, k) == Read(stream, k).threw \/ Read(stream, k).done

\* The last pass the loop makes. The reads that yield the listed chunks do
\* not leave the loop and the reads after them all do the same, so the first
\* read after the chunks decides: the loop is left there, or at maxReads.
LastRead(stream) ==
  LET decisive == Min(Len(stream.chunks) + 1, maxReads)
  IN IF Stops(stream, decisive) THEN decisive ELSE maxReads

\* The passes of the loop: every pass before the one that leaves it yields a
\* chunk, which is kept when it holds bytes; readCount counts the reads that
\* did not throw.
ReadSteps(stream) ==
  LET last == LastRead(stream)
      threw == Read(stream, last).threw
      yielded == IF Stops(stream, last) THEN last - 1 ELSE last
  IN [threw |-> threw,
      done |-> Read(stream, last).done,
      chunks |-> SelectSeq([k \in 1..yielded |-> Read(stream, k).value],
                           LAMBDA c : c > 0),
      readCount |-> IF threw THEN last - 1 ELSE last]

\* A variant of what follows the loop: reaching the read limit without done
\* is an error.
AtMaxReadsThrows(loop) ==
  IF loop.readCount >= maxReads /\ ~loop.done
  THEN [loop EXCEPT !.threw = TRUE] ELSE loop

\* `if (readCount >= maxReads) console.warn(...)`: a warning, and no more.
AtMaxReads(loop) == loop

\* The try block of streamToUint8Array after getReader().
ReadLoop(stream) == AtMaxReads(ReadSteps(stream))

\* A variant of the finally block: the lock stays when the loop threw.
ReleaseLockUnlessThrown(reader, loop) == reader /\ ~loop.threw

\* The finally block: `if (reader) reader.releaseLock()`, whatever the try
\* block did.
ReleaseLock(reader, loop) == reader

\* streamToUint8Array: without a reader it throws; else it reads, releases
\* the reader, and throws when a read failed, when no chunk with bytes was
\* read and when the chunks hold no bytes; else it returns the bytes.
streamToUint8Array(stream) ==
  IF ~stream.reader
  THEN [threw |-> TRUE, length |-> 0, acquired |-> FALSE,
        released |-> ReleaseLock(FALSE, [threw |-> TRUE]), readCount |-> 0]
  ELSE LET loop == ReadLoop(stream)
           released == ReleaseLock(TRUE, loop)
       IN IF loop.threw \/ Len(loop.chunks) = 0 \/ Sum(loop.chunks) = 0
          THEN [threw |-> TRUE, length |-> 0, acquired |-> TRUE,
                released |-> released, readCount |-> loop.readCount]
          ELSE [threw |-> FALSE, length |-> Sum(loop.chunks),
                acquired |-> TRUE, released |-> released,
                readCount |-> loop.readCount]

\* A variant: only a failing read keeps the audio element from being made.
NoAudioUnlessReadFails(stream) == stream.fails

\* The stream gave nothing to play: the catch (streamError) block returns,
\* or `!audioBytes || audioBytes.length === 0` does.
NoAudio(stream) ==
  streamToUint8Array(stream).threw \/ streamToUint8Array(stream).length = 0

\* What the first playback attempt meets: the page is hidden, the browser
\* refuses both play() calls with NotAllowedError, or play() is accepted.
PlayOutcomes == {"hidden", "blocked", "accepted"}

\* ------------------------------------------------------------------- Init

DefaultSettings ==
  [maxConcurrentAudio |-> 3, defaultVolume |-> 7, fadeOutDuration |-> 500,
   queueProcessingDelay |-> 100]

\* config.js: the keys come from the environment or are placeholders, the
\* region is 'us-east-1'.
DefaultAwsConfig ==
  [accessKeyId |-> [isString |-> TRUE, chars |-> <<"k">>],
   secretAccessKey |-> [isString |-> TRUE, chars |-> <<"k">>],
   region |-> [isString |-> TRUE, chars |-> <<"u">>]]

\* A thought bubble that does not exist. age is the time since spawnThought
\* made it.
FreeThought ==
  [pc |-> "free", isPositive |-> FALSE,
   clicked |-> FALSE,        \* classList contains 'clicked'
   inGameArea |-> FALSE,     \* gameArea.contains(thought)
   removeTimeout |-> FALSE,  \* the 5 s timer of spawnThought is pending
   removal |-> FALSE,        \* the 400 ms timer of clickThought is pending
   age |-> 0]

\* The gameState object of app.js; a spawn timer is null, the handle of a
\* running interval or the handle of a cleared one.
FreshGameState ==
  [isPlaying |-> FALSE, confidence |-> 50, activeThoughts |-> {},
   negativeSpawnTimer |-> "null", positiveSpawnTimer |-> "null"]

NoGameTimers ==
  [spawning |-> 0,         \* pending setTimeout(startThoughtSpawning, 1000)
   ending |-> 0,           \* pending setTimeout(endGame, 500)
   leakedNegative |-> 0,   \* running intervals no handle refers to
   leakedPositive |-> 0,
   staleSpawning |-> 0,    \* history: of these, scheduled before the last
   staleEnding |-> 0,      \*   startGame
   crossed |-> FALSE]      \* history: one of those ran while a game was on

Init ==
  /\ pollyInitialized = FALSE
  /\ gameState = FreshGameState
  /\ thoughts = [t \in Thoughts |-> FreeThought]
  /\ gameTimers = NoGameTimers
  /\ awsConfig = DefaultAwsConfig
  /\ pollyClient = FALSE
  /\ ttsErrorCount = 0
  /\ lastErrorTime = NoTime
  /\ activeAudioElements = <<>>
  /\ audioQueue = <<>>
  /\ isProcessingQueue = FALSE
  /\ audioSettings = DefaultSettings
  /\ performanceMetrics =
       [totalRequests |-> 0, successfulRequests |-> 0, queuedRequests |-> 0]
  /\ now = TickMs
  /\ drainTimers = 0
  /\ drainSleeping = 0
  /\ slot = [s \in Slots |-> FreeSlot]
  /\ rejected = FALSE
  /\ lateSends = 0

\* The state Init describes, as one value.
InitState ==
  [config |-> DefaultAwsConfig, client |-> FALSE, errCount |-> 0, lastErr |-> NoTime,
   active |-> <<>>, queue |-> <<>>, processing |-> FALSE, settings |-> DefaultSettings,
   metrics |-> [totalRequests |-> 0, successfulRequests |-> 0, queuedRequests |-> 0],
   now |-> TickMs, timers |-> 0, sleeping |-> 0, slot |-> [s \in Slots |-> FreeSlot],
   rejected |-> FALSE, polly |-> FALSE, game |-> FreshGameState,
   thoughts |-> [t \in Thoughts |-> FreeThought], gameTimers |-> NoGameTimers,
   late |-> 0]

\* An element nothing refers to any more is garbage.
Garbage(s) ==
  /\ slot[s].pc = "settled"
  /\ s \notin Range(activeAudioElements)
  /\ ~slot[s].pauseEvt /\ slot[s].fades = 0
  /\ slot[s].listening = {} /\ ~slot[s].expiry /\ ~slot[s].retry

\* The bounds of the model, as a guard on the state a step leaves.
WithinBounds(env, st) ==
  /\ st.errCount <= env.errors
  /\ st.metrics.totalRequests <= env.calls

\* A task runs: garbage is collected before it (collection is invisible to
\* the program, so its moment does not matter), unless the run leaves the
\* moment of the collection open.
Step(env, st) ==
  /\ env.lazy \/ \A s \in Slots : ~Garbage(s)
  /\ WithinBounds(env, st)
  /\ Commit(st)

\* ---------------------------------------------------------------- actions
\* Every action takes env, the environment of the run: the bounds on the
\* counters, the sets its inputs and outcomes are drawn from, and the history
\* that is recorded.

\* What awsConfig may hold in a field: undefined, '', ' ', or a value.
ConfigValues ==
  {[isString |-> FALSE, chars |-> <<>>], [isString |-> TRUE, chars |-> <<>>],
   [isString |-> TRUE, chars |-> <<" ">>], [isString |-> TRUE, chars |-> <<"k">>]}

AwsConfigs ==
  [accessKeyId : ConfigValues, secretAccessKey : ConfigValues,
   region : ConfigValues \cup {DefaultAwsConfig.region}]

\* A variant: a field holding only blanks counts as present.
PresentUntrimmed(v) == v.isString /\ Len(v.chars) > 0

\* !(!v || v.trim() === '')
Present(v) == v.isString /\ Len(v.chars) > 0 /\ Trim(v.chars) # <<>>

\* The body of initializePollyClient: without one of the keys it returns
\* null and leaves pollyClient as it is; a missing region is set to
\* 'us-east-1' and the client is created.
InitializePollyClient(st) ==
  IF ~Present(st.config.accessKeyId) \/ ~Present(st.config.secretAccessKey)
  THEN st
  ELSE [st EXCEPT !.client = TRUE,
                  !.config.region =
                    IF Present(@) THEN @ ELSE DefaultAwsConfig.region]

\* initializePollyClient(), called with awsConfig as the environment and the
\* embedding have set it.
initializePollyClient(env) ==
  \E config \in env.aws :
    Step(env, InitializePollyClient([Cur EXCEPT !.config = config]))

Clamp(lo, hi, v) == Max(lo, Min(hi, v))

\* History: element a is gone; nobody waits behind it or is younger than it.
Forget(st, a) ==
  [st EXCEPT !.slot = [s \in Slots |->
     [st.slot[s] EXCEPT !.evicts = IF @ = a THEN 0 ELSE @,
                        !.elders = @ \ {a}]]]

\* The body of configureAudioSettings.
ConfigureAudioSettings(st, settings) ==
  LET merged == [k \in DOMAIN st.settings |->
                   IF k \in DOMAIN settings THEN settings[k] ELSE st.settings[k]]
  IN [st EXCEPT !.settings =
        [merged EXCEPT !.maxConcurrentAudio = Clamp(1, 10, @),
                       !.defaultVolume = Clamp(0, 10, @),
                       !.fadeOutDuration = Clamp(0, 5000, @)]]

configureAudioSettings(env) ==
  \E settings \in env.configs : Step(env, ConfigureAudioSettings(Cur, settings))

\* A variant: the reset clears the time of the last error alone.
ResetTtsErrorsKeepsCount(st) == [st EXCEPT !.lastErr = NoTime]

\* The body of resetTtsErrors.
ResetTtsErrors(st) == [st EXCEPT !.errCount = 0, !.lastErr = NoTime]

resetTtsErrors(env) == Step(env, ResetTtsErrors(Cur))

\* getTtsStatus(), and isPollyAvailable() with a client, which app.js calls
\* before every speakText: both run isTtsTemporarilyDisabled.
getTtsStatus(env) == Step(env, GetTtsStatus(Cur))

\* Date.now() moves on. The program reads the clock in recordTtsError, which
\* overwrites lastErrorTime, and in isTtsTemporarilyDisabled once the count
\* is at the threshold: only the time that passes while the count is at the
\* threshold can be observed, and only that time is modelled.
Tick(env) ==
  /\ now < env.maxNow
  /\ ttsErrorCount >= MAX_ERROR_COUNT
  /\ Step(env, [Cur EXCEPT !.now = @ + TickMs])

\* History: the one element that plays at limit 1 when a request is queued
\* (recorded in a run whose limit, once 1, stays 1).
Evicted(st) ==
  IF /\ st.settings.maxConcurrentAudio = 1 /\ Len(st.active) = 1
     /\ st.slot[Head(st.active)].pc = "settled"
     /\ ~Finished(st, Head(st.active))
  THEN Head(st.active) ELSE 0

FreeSlots(env) == {s \in 1..env.live : slot[s].pc = "free"}

\* A variant: speakText without its `if (!pollyClient)` return.
RefusedWithoutClientCheck(st, text) == ~ValidText(text) \/ TtsDisabled(st)

\* The three early returns of speakText.
Refused(st, text) == ~ValidText(text) \/ ~st.client \/ TtsDisabled(st)

\* speakText(text) up to its first await (or its return); s is the slot of
\* the request, taken when the call is not refused.
SpeakText(env, st, text, s) ==
  LET st0 == [st EXCEPT !.metrics.totalRequests = Counted(env, @)]
  IN IF Refused(st0, text) THEN st0
     ELSE LET st1 == manageAudioConcurrency(AfterDisabledCheck(st0))
          IN IF Len(st1.active) >= st1.settings.maxConcurrentAudio
             THEN ScheduleDrain(
                    [st1 EXCEPT !.metrics.queuedRequests = @ + 1,
                                !.queue = Append(@, s),
                                !.slot[s].pc = "queued",
                                !.slot[s].text = text.chars,
                                !.slot[s].evicts =
                                  IF env.markEvict THEN Evicted(st1) ELSE 0])
             ELSE Synthesize([st1 EXCEPT !.slot[s].text = text.chars], s, FALSE)

speakText(env) ==
  \E text \in env.texts :
    IF Refused(Cur, text) THEN Step(env, SpeakText(env, Cur, text, 1))
    ELSE /\ FreeSlots(env) # {}
         /\ LET s == CHOOSE x \in FreeSlots(env) : \A y \in FreeSlots(env) : x <= y
            IN Step(env, SpeakText(env, Cur, text, s))

\* A setTimeout(() => processAudioQueue(), ...) fires.
DrainTimerFires(env) ==
  /\ drainTimers > 0
  /\ Step(env, processAudioQueue([Cur EXCEPT !.timers = @ - 1]))

\* The pacing delay of a drain loop is over: back to the while condition.
PacingDone(env) ==
  /\ drainSleeping > 0
  /\ Step(env, LoopCheck([Cur EXCEPT !.sleeping = @ - 1]))

\* Promise.race([pollyClient.send(command), timeoutPromise]) settles, and the
\* code runs to `await streamToUint8Array` or through the outer catch block.
SendCompletes(env, s) ==
  /\ slot[s].pc = "sending"
  /\ \E outcome \in env.send :
       CASE outcome = "stream" -> Step(env, [Cur EXCEPT !.slot[s].pc = "reading"])
         [] outcome = "noStream" -> Step(env, Return(Cur, s))
         [] outcome = "TIMEOUT" ->
              Step(env, CatchBlock([Cur EXCEPT !.late = Min(@ + 1, env.late)],
                                   s, outcome))
         [] OTHER -> Step(env, CatchBlock(Cur, s, outcome))

\* A variant: the response that lost the race is processed like one that
\* won it, as a request of its own.
AfterLateSendReads(st, outcome) ==
  IF outcome = "stream" /\ \E s \in Slots : st.slot[s] = FreeSlot
  THEN LET s == CHOOSE t \in Slots : st.slot[t] = FreeSlot
       IN [st EXCEPT !.slot[s].pc = "reading"]
  ELSE IF outcome \in RecordedFailures THEN recordTtsError(st)
  ELSE st

\* What the program does when pollyClient.send() settles after timeoutPromise
\* was rejected: Promise.race has settled with the first of the two, and
\* nothing else was attached to the promise of send().
AfterLateSend(st, outcome) == st

\* pollyClient.send() settles, with a response or an error, after its race
\* was lost to the 10 s timer.
LateSendSettles(env) ==
  /\ lateSends > 0
  /\ \E outcome \in env.send \ {"TIMEOUT"} :
       Step(env, AfterLateSend([Cur EXCEPT !.late = @ - 1], outcome))

\* The events handleAutoplayBlocked registers playOnInteraction for.
GestureKinds == {"click", "keydown", "touchstart"}

\* The catch (playError) block after the element left the active set; only a
\* NotAllowedError goes through handleAutoplayBlocked first.
PlayFailed(st, s, notAllowed) ==
  LET st1 == Delete(st, s)
      st2 == IF notAllowed
             THEN [st1 EXCEPT !.slot[s].listening = GestureKinds,
                              !.slot[s].expiry = TRUE]
             ELSE st1
  IN Return(ScheduleDrain(Revoke(st2, s)), s)

\* synthesizeAndPlayAudio from the end of `await streamToUint8Array` to its
\* next await or its return: without audio it returns; with bytes the element
\* is created, added to the active set and handleAutoplayOptimization makes
\* its play() calls.
AfterStream(env, st, s, stream, play) ==
  IF NoAudio(stream) THEN Return(st, s)
  ELSE LET st1 == Add([st EXCEPT !.slot[s].el = TRUE,
                                 !.slot[s].elders =
                                   IF env.markBorn
                                   THEN {t \in Slots : st.slot[t].el}
                                   ELSE {}], s)
       IN CASE play = "hidden" -> PlayFailed(st1, s, FALSE)
            [] play = "blocked" -> PlayFailed(st1, s, TRUE)
            [] OTHER -> [st1 EXCEPT !.slot[s].paused = FALSE,
                                    !.slot[s].pc = "starting"]

\* streamToUint8Array settles.
StreamCompletes(env, s) ==
  /\ slot[s].pc = "reading"
  /\ \E stream \in env.stream, play \in env.play :
       Step(env, AfterStream(env, Cur, s, stream, play))

\* The play() promise resolves: playback has started.
PlayResolves(env, s) ==
  /\ slot[s].pc = "starting" /\ ~slot[s].paused /\ ~slot[s].error
  /\ Step(env, Return([Cur EXCEPT !.metrics.successfulRequests = Counted(env, @)], s))

\* What a pending play() promise of the element does when it is rejected:
\* the one awaited by synthesizeAndPlayAudio, or the one of playOnInteraction.
RejectPlay(st, s) ==
  IF st.slot[s].pc = "starting" THEN PlayFailed(st, s, FALSE)
  ELSE IF st.slot[s].retry THEN Revoke([st EXCEPT !.slot[s].retry = FALSE], s)
  ELSE st

Playing(s) ==
  slot[s].el /\ ~slot[s].paused /\ ~slot[s].ended /\ ~slot[s].error

\* Playback reaches the end: the element becomes paused and ended, the browser
\* fires 'pause' (the HTML standard; older browsers did not) and then 'ended'.
Ended(env, s) ==
  /\ Playing(s) /\ slot[s].pc = "settled" /\ ~slot[s].retry
  /\ \E firesPause \in BOOLEAN :
       LET st1 == [Cur EXCEPT !.slot[s].paused = TRUE, !.slot[s].ended = TRUE]
           st2 == IF firesPause THEN CleanupListener(st1, s) ELSE st1
       IN Step(env, CleanupListener(st2, s))

\* The element fails to load or decode: 'error' is fired, and a pending play()
\* promise is rejected.
MediaError(env, s) ==
  /\ Playing(s)
  /\ Step(env, RejectPlay(CleanupListener([Cur EXCEPT !.slot[s].error = TRUE], s), s))

\* audioElement.currentTime === 0: stopAllAudio rewound the element, or its
\* playback has not started (the play() promise is still pending).
AtZero(st, s) == st.slot[s].rewound \/ st.slot[s].pc = "starting"

\* The queued 'pause' event is dispatched; the listener cleans up when
\* currentTime === 0 || ended. A play() promise still pending is rejected
\* with AbortError.
PauseEvent(env, s) ==
  /\ slot[s].pauseEvt
  /\ LET st1 == [Cur EXCEPT !.slot[s].pauseEvt = FALSE]
         st2 == IF AtZero(st1, s) \/ st1.slot[s].ended
                THEN CleanupListener(st1, s) ELSE st1
     IN Step(env, RejectPlay(st2, s))

\* The last tick of a fadeInterval (the ticks before it only lower the
\* volume): clearInterval, pause, delete, revoke.
FadeFinish(env, s) ==
  /\ slot[s].fades > 0
  /\ Step(env, Revoke(Delete(PauseElement(
            [Cur EXCEPT !.slot[s].fades = @ - 1], s), s), s))

Listening(kind) == {s \in Slots : kind \in slot[s].listening}

\* A variant: playOnInteraction leaves the listeners of the other events in
\* place (the one that fired was registered with once: true).
PlayOnInteractionKeepsOthers(env, el, kind) ==
  [el EXCEPT !.listening = @ \ {kind}, !.paused = FALSE, !.retry = TRUE,
             !.retries = IF env.markRetry THEN Min(@ + 1, MaxRetries) ELSE 0]

\* playOnInteraction of the element el: it calls play() and removes its
\* three listeners.
PlayOnInteraction(env, el, kind) ==
  [el EXCEPT !.listening = {}, !.paused = FALSE, !.retry = TRUE,
             !.retries = IF env.markRetry THEN Min(@ + 1, MaxRetries) ELSE 0]

\* A click, keydown or touchstart: every playOnInteraction registered for
\* the event runs.
Gesture(env) ==
  \E kind \in GestureKinds :
    /\ Listening(kind) # {}
    /\ Step(env, [Cur EXCEPT !.slot = [s \in Slots |->
               IF s \in Listening(kind)
               THEN PlayOnInteraction(env, slot[s], kind)
               ELSE slot[s]]])

\* The play() promise of playOnInteraction resolves.
RetryResolves(env, s) ==
  /\ slot[s].retry /\ Playing(s)
  /\ Step(env, Add([Cur EXCEPT !.slot[s].retry = FALSE], s))

\* The 30 s timer of handleAutoplayBlocked.
AutoplayExpiry(env, s) ==
  /\ slot[s].expiry
  /\ Step(env, Revoke([Cur EXCEPT !.slot[s].expiry = FALSE,
                                  !.slot[s].listening = {}], s))

RECURSIVE StopEach(_, _)
StopEach(st, elements) ==
  IF elements = {} THEN st
  ELSE LET s == CHOOSE x \in elements : TRUE
           st1 == PauseElement(st, s)
       IN StopEach(Revoke([st1 EXCEPT !.slot[s].rewound = TRUE], s),
                   elements \ {s})

\* A variant: stopAllAudio without `audioQueue.length = 0`.
StopAllKeepsQueue(st, mark) ==
  LET st1 == StopEach(st, Range(st.active))
      st2 == [st1 EXCEPT !.active = <<>>, !.processing = FALSE]
  IN [st2 EXCEPT !.slot = [s \in Slots |->
        IF st2.slot[s].pc = "free" THEN FreeSlot
        ELSE [st2.slot[s] EXCEPT !.stale = mark]]]

\* The body of stopAllAudio: the entries of the cleared queue are dropped
\* with their resolve/reject pair. With mark, the requests issued so far are
\* marked as issued before a stop.
StopAll(st, mark) ==
  LET st1 == StopEach(st, Range(st.active))
      st2 == [st1 EXCEPT !.active = <<>>, !.queue = <<>>, !.processing = FALSE]
  IN [st2 EXCEPT !.slot = [s \in Slots |->
        IF st2.slot[s].pc \in {"free", "queued"} THEN FreeSlot
        ELSE [st2.slot[s] EXCEPT !.stale = mark]]]

stopAllAudio(env) == Step(env, StopAll(Cur, env.markStale))

\* The garbage collector frees the slot of an unreachable element.
Reap(s) ==
  /\ Garbage(s)
  /\ Commit(Forget([Cur EXCEPT !.slot[s] = FreeSlot], s))

\* ------------------------------------------------------------ app.js: game

\* The settings app.js passes when the page loads (volume in tenths).
GameAudioSettings ==
  [maxConcurrentAudio |-> 2, defaultVolume |-> 6, fadeOutDuration |-> 300,
   queueProcessingDelay |-> 50]

\* The top level of app.js: initializePollyClient() and, with a client,
\* configureAudioSettings.
LoadApp(st) ==
  LET st1 == InitializePollyClient(st)
  IN IF st1.client
     THEN ConfigureAudioSettings([st1 EXCEPT !.polly = TRUE], GameAudioSettings)
     ELSE [st1 EXCEPT !.polly = FALSE]

\* The text of a positive thought.
PositiveMessages == {[isString |-> TRUE, chars |-> <<"a">>]}

\* A thought nothing refers to any more is forgotten.
Tidy(st) ==
  [st EXCEPT !.thoughts = [t \in Thoughts |->
     IF /\ ~st.thoughts[t].inGameArea /\ t \notin st.game.activeThoughts
        /\ ~st.thoughts[t].removeTimeout /\ ~st.thoughts[t].removal
     THEN FreeThought ELSE st.thoughts[t]]]

\* clearInterval(handle)
ClearInterval(handle) == IF handle = "running" THEN "cleared" ELSE handle

removeThought(st, t) ==
  [st EXCEPT !.game.activeThoughts = @ \ {t},
             !.thoughts[t].inGameArea = FALSE,
             !.thoughts[t].removeTimeout = FALSE]

\* startGame(): the game plays, and startThoughtSpawning is called 1 s later.
startGame(env) ==
  /\ gameTimers.spawning < env.timeouts
  /\ Step(env, [Cur EXCEPT !.game.isPlaying = TRUE,
                           !.gameTimers.spawning = @ + 1,
                           !.gameTimers.staleSpawning =
                             IF env.markGame THEN gameTimers.spawning ELSE 0,
                           !.gameTimers.staleEnding =
                             IF env.markGame THEN gameTimers.ending ELSE 0])

\* The delayed startThoughtSpawning() runs: two new intervals, whose handles
\* overwrite the ones gameState held.
startThoughtSpawning(env) ==
  /\ gameTimers.spawning > 0
  /\ gameState.negativeSpawnTimer = "running" => gameTimers.leakedNegative < env.leaks
  /\ gameState.positiveSpawnTimer = "running" => gameTimers.leakedPositive < env.leaks
  /\ Step(env,
       [Cur EXCEPT !.gameTimers.spawning = @ - 1,
                   !.gameTimers.staleSpawning = Max(0, @ - 1),
                   !.gameTimers.crossed =
                     @ \/ (gameTimers.staleSpawning > 0 /\ gameState.isPlaying),
                   !.gameTimers.leakedNegative =
                     IF gameState.negativeSpawnTimer = "running" THEN @ + 1 ELSE @,
                   !.gameTimers.leakedPositive =
                     IF gameState.positiveSpawnTimer = "running" THEN @ + 1 ELSE @,
                   !.game.negativeSpawnTimer = "running",
                   !.game.positiveSpawnTimer = "running"])

\* A variant: spawnThought sets the 5 s timer for every thought.
AutoRemovedAlways(isPositive) == TRUE

\* spawnThought sets the 5 s timer for negative thoughts only.
AutoRemoved(isPositive) == ~isPositive

\* spawnThought(isPositive): the bubble t is made and added; a positive one
\* is spoken (request slot s) when Polly was initialized and is available.
SpawnThought(env, st, isPositive, t, s) ==
  LET st1 == [st EXCEPT !.thoughts[t] =
                [FreeThought EXCEPT !.pc = "live", !.isPositive = isPositive,
                                    !.inGameArea = TRUE,
                                    !.removeTimeout = AutoRemoved(isPositive)],
                        !.game.activeThoughts = @ \cup {t}]
      st2 == IsPollyAvailable(st1)
      available == st1.client /\ ~TtsDisabled(st1)
  IN IF isPositive /\ st1.polly
     THEN IF available
          THEN SpeakText(env, st2, CHOOSE m \in PositiveMessages : TRUE, s)
          ELSE st2
     ELSE st1

\* A spawn interval fires, one held by gameState or a leaked one.
SpawnIntervalFires(env) ==
  \E isPositive \in BOOLEAN :
    /\ IF isPositive
       THEN gameState.positiveSpawnTimer = "running" \/ gameTimers.leakedPositive > 0
       ELSE gameState.negativeSpawnTimer = "running" \/ gameTimers.leakedNegative > 0
    /\ gameState.isPlaying /\ gameState.confidence < 100
    /\ \E t \in Thoughts :
         /\ thoughts[t].pc = "free"
         /\ \A u \in Thoughts : thoughts[u].pc = "free" => t <= u
         /\ IF FreeSlots(env) = {}
            THEN /\ ~isPositive \/ ~pollyInitialized \/ ~pollyClient \/ TtsDisabled(Cur)
                 /\ Step(env, SpawnThought(env, Cur, isPositive, t, 1))
            ELSE LET s == CHOOSE x \in FreeSlots(env) : \A y \in FreeSlots(env) : x <= y
                 IN Step(env, SpawnThought(env, Cur, isPositive, t, s))

\* clickThought on a bubble that is on screen, past its first return. The
\* player hits a positive thought only while the confidence is not above its
\* initial value.
ClickThought(st, t) ==
  LET st1 == [st EXCEPT !.thoughts[t].removeTimeout = FALSE,
                        !.thoughts[t].clicked = TRUE,
                        !.thoughts[t].removal = TRUE,
                        !.game.confidence =
                          IF st.thoughts[t].isPositive
                          THEN Min(Max(0, @ - 3), 100) ELSE Min(@ + 5, 100)]
  IN IF st1.game.confidence >= 100
     THEN [st1 EXCEPT !.gameTimers.ending = @ + 1]
     ELSE st1

clickThought(env) ==
  \E t \in Thoughts :
    /\ thoughts[t].inGameArea
    /\ gameState.isPlaying /\ ~thoughts[t].clicked
    /\ thoughts[t].isPositive =>
         /\ gameState.confidence <= 50
         /\ gameState.confidence - 3 >= 50 - 3 * MaxPenalties
    /\ ClickThought(Cur, t).gameTimers.ending <= env.timeouts
    /\ Step(env, ClickThought(Cur, t))

\* The 400 ms timer of clickThought fires.
RemovalFires(env) ==
  \E t \in Thoughts :
    /\ thoughts[t].removal
    /\ Step(env, Tidy(removeThought([Cur EXCEPT !.thoughts[t].removal = FALSE], t)))

\* The 5 s timer of spawnThought fires.
RemoveTimeoutFires(env) ==
  \E t \in Thoughts :
    /\ thoughts[t].removeTimeout /\ thoughts[t].age >= AutoRemoveMs
    /\ LET st1 == [Cur EXCEPT !.thoughts[t].removeTimeout = FALSE]
       IN Step(env, Tidy(IF thoughts[t].inGameArea THEN removeThought(st1, t) ELSE st1))

\* The body of endGame.
EndGame(st, mark) ==
  LET st1 == [st EXCEPT !.game.isPlaying = FALSE,
                        !.game.negativeSpawnTimer = ClearInterval(@),
                        !.game.positiveSpawnTimer = ClearInterval(@)]
      st2 == IF st.polly THEN StopAll(st1, mark) ELSE st1
  IN [st2 EXCEPT !.thoughts = [t \in Thoughts |->
                    IF t \in st.game.activeThoughts
                    THEN [st.thoughts[t] EXCEPT !.inGameArea = FALSE,
                                                !.removeTimeout = FALSE]
                    ELSE st.thoughts[t]],
                 !.game.activeThoughts = {}]

\* The 500 ms timer of the winning click fires.
endGame(env) ==
  /\ gameTimers.ending > 0
  /\ Step(env, Tidy(EndGame([Cur EXCEPT
         !.gameTimers.ending = @ - 1,
         !.gameTimers.staleEnding = Max(0, @ - 1),
         !.gameTimers.crossed =
           @ \/ (gameTimers.staleEnding > 0 /\ gameState.isPlaying)],
       env.markStale)))

\* The body of restartGame: the intervals gameState holds are cleared, every
\* bubble on screen is removed and gameState is a new object.
RestartGame(st, mark) ==
  LET st1 == IF st.polly THEN StopAll(st, mark) ELSE st
  IN [st1 EXCEPT !.thoughts = [t \in Thoughts |->
                    IF st.thoughts[t].inGameArea
                    THEN [st.thoughts[t] EXCEPT !.inGameArea = FALSE,
                                                !.removeTimeout = FALSE]
                    ELSE st.thoughts[t]],
                 !.game = FreshGameState]

restartGame(env) == Step(env, Tidy(RestartGame(Cur, env.markStale)))

\* The game clock moves on, unless a 5 s timer is due.
GameTick(env) ==
  /\ \A t \in Thoughts : ~(thoughts[t].removeTimeout /\ thoughts[t].age >= AutoRemoveMs)
  /\ \E t \in Thoughts : thoughts[t].pc = "live" /\ thoughts[t].age < AutoRemoveMs
  /\ Step(env, [Cur EXCEPT !.thoughts = [t \in Thoughts |->
                    IF thoughts[t].pc = "live"
                    THEN [thoughts[t] EXCEPT !.age = Min(@ + TickGameMs, AutoRemoveMs)]
                    ELSE thoughts[t]]])

\* ---------------------------------------------------------- specifications

\* Any caller, any service, any browser; few calls.
EnvAll ==
  [calls |-> MaxCalls, live |-> MaxLive, errors |-> MaxErrors, maxNow |-> MaxNow,
   configs |-> LimitInputs, texts |-> SpeakInputs, send |-> SendOutcomes,
   stream |-> StreamInputs,
   play |-> PlayOutcomes, markStale |-> FALSE, markEvict |-> FALSE,
   markBorn |-> FALSE, markRetry |-> FALSE,
   leaks |-> 0, saturate |-> FALSE, lazy |-> FALSE, late |-> 0, timeouts |-> MaxTimeouts, markGame |-> FALSE, aws |-> {DefaultAwsConfig}]

Next ==
  \/ \E s \in Slots : Reap(s)
  \/ initializePollyClient(EnvAll)
  \/ configureAudioSettings(EnvAll)
  \/ resetTtsErrors(EnvAll)
  \/ getTtsStatus(EnvAll)
  \/ speakText(EnvAll)
  \/ stopAllAudio(EnvAll)
  \/ DrainTimerFires(EnvAll)
  \/ PacingDone(EnvAll)
  \/ Gesture(EnvAll)
  \/ \E s \in Slots :
       \/ SendCompletes(EnvAll, s)
       \/ StreamCompletes(EnvAll, s)
       \/ PlayResolves(EnvAll, s)
       \/ Ended(EnvAll, s)
       \/ MediaError(EnvAll, s)
       \/ PauseEvent(EnvAll, s)
       \/ FadeFinish(EnvAll, s)
       \/ RetryResolves(EnvAll, s)
       \/ AutoplayExpiry(EnvAll, s)

Spec == Init /\ [][Next]_vars

\* A failing service: enough calls to open the circuit breaker and to let the
\* cooldown pass, with a browser that plays whatever it is given.
EnvBreaker ==
  [calls |-> MaxCallsBreaker, live |-> MaxLive, errors |-> MaxErrors,
   maxNow |-> MaxNow, configs |-> LimitInputs, texts |-> SpeakInputs,
   send |-> {"stream", "NETWORK", "CREDENTIALS"}, stream |-> BytesStreams,
   play |-> {"accepted"}, markStale |-> FALSE, markEvict |-> FALSE,
   markBorn |-> FALSE, markRetry |-> FALSE,
   leaks |-> 0, saturate |-> FALSE, lazy |-> FALSE, late |-> 0, timeouts |-> MaxTimeouts, markGame |-> FALSE, aws |-> {DefaultAwsConfig}]

NextBreaker ==
  \/ \E s \in Slots : Reap(s)
  \/ initializePollyClient(EnvBreaker)
  \/ configureAudioSettings(EnvBreaker)
  \/ resetTtsErrors(EnvBreaker)
  \/ getTtsStatus(EnvBreaker)
  \/ Tick(EnvBreaker)
  \/ speakText(EnvBreaker)
  \/ DrainTimerFires(EnvBreaker)
  \/ PacingDone(EnvBreaker)
  \/ \E s \in Slots :
       \/ SendCompletes(EnvBreaker, s)
       \/ StreamCompletes(EnvBreaker, s)
       \/ PlayResolves(EnvBreaker, s)
       \/ Ended(EnvBreaker, s)
       \/ PauseEvent(EnvBreaker, s)
       \/ FadeFinish(EnvBreaker, s)

SpecBreaker == Init /\ [][NextBreaker]_vars

\* A caller that sets the limit to 1 and stops the audio (endGame and
\* restartGame of app.js), with the history recorded: the requests issued
\* before a stop, and the playing element a request is queued behind.
EnvStop ==
  [calls |-> MaxCalls, live |-> MaxLive, errors |-> MaxErrors, maxNow |-> MaxNow,
   configs |-> LimitInputs, texts |-> SpeakInputs, send |-> {"stream", "NETWORK"},
   stream |-> BytesStreams, play |-> {"blocked", "accepted"}, markStale |-> TRUE,
   markEvict |-> TRUE, markBorn |-> FALSE, markRetry |-> FALSE,
   leaks |-> 0, saturate |-> FALSE, lazy |-> FALSE, late |-> 0, timeouts |-> MaxTimeouts, markGame |-> FALSE, aws |-> {DefaultAwsConfig}]

NextStop ==
  \/ \E s \in Slots : Reap(s)
  \/ initializePollyClient(EnvStop)
  \/ configureAudioSettings(EnvStop)
  \/ speakText(EnvStop)
  \/ stopAllAudio(EnvStop)
  \/ DrainTimerFires(EnvStop)
  \/ PacingDone(EnvStop)
  \/ Gesture(EnvStop)
  \/ \E s \in Slots :
       \/ SendCompletes(EnvStop, s)
       \/ StreamCompletes(EnvStop, s)
       \/ PlayResolves(EnvStop, s)
       \/ Ended(EnvStop, s)
       \/ MediaError(EnvStop, s)
       \/ PauseEvent(EnvStop, s)
       \/ FadeFinish(EnvStop, s)
       \/ RetryResolves(EnvStop, s)
       \/ AutoplayExpiry(EnvStop, s)

SpecStop == Init /\ [][NextStop]_vars

\* A service that answers and a browser that may block autoplay until a
\* gesture, with the history recorded: the order in which the elements were
\* created, and the runs of playOnInteraction.
EnvOrder ==
  [calls |-> MaxCalls, live |-> MaxLive, errors |-> MaxErrors, maxNow |-> MaxNow,
   configs |-> LimitInputs, texts |-> SpeakInputs, send |-> {"stream"},
   stream |-> BytesStreams, play |-> {"blocked", "accepted"},
   markStale |-> FALSE, markEvict |-> FALSE, markBorn |-> TRUE, markRetry |-> TRUE,
   leaks |-> 0, saturate |-> FALSE, lazy |-> FALSE, late |-> 0, timeouts |-> MaxTimeouts, markGame |-> FALSE, aws |-> {DefaultAwsConfig}]

NextOrder ==
  \/ \E s \in Slots : Reap(s)
  \/ initializePollyClient(EnvOrder)
  \/ configureAudioSettings(EnvOrder)
  \/ speakText(EnvOrder)
  \/ DrainTimerFires(EnvOrder)
  \/ PacingDone(EnvOrder)
  \/ Gesture(EnvOrder)
  \/ \E s \in Slots :
       \/ SendCompletes(EnvOrder, s)
       \/ StreamCompletes(EnvOrder, s)
       \/ PlayResolves(EnvOrder, s)
       \/ Ended(EnvOrder, s)
       \/ MediaError(EnvOrder, s)
       \/ PauseEvent(EnvOrder, s)
       \/ FadeFinish(EnvOrder, s)
       \/ RetryResolves(EnvOrder, s)
       \/ AutoplayExpiry(EnvOrder, s)

SpecOrder == Init /\ [][NextOrder]_vars

\* A caller whose responses carry every kind of stream: finite ones, ones
\* that never report done, and one without a reader.
EnvStream ==
  [calls |-> MaxCallsText, live |-> MaxCallsText, errors |-> MaxErrors,
   maxNow |-> MaxNow, configs |-> LimitInputs,
   texts |-> SpeakInputs, send |-> {"stream"},
   stream |-> ReaderInputs, play |-> {"accepted"}, markStale |-> FALSE,
   markEvict |-> FALSE, markBorn |-> FALSE, markRetry |-> FALSE,
   leaks |-> 0, saturate |-> FALSE, lazy |-> FALSE, late |-> 0, timeouts |-> MaxTimeouts, markGame |-> FALSE, aws |-> {DefaultAwsConfig}]

NextStream ==
  \/ \E s \in Slots : Reap(s)
  \/ initializePollyClient(EnvStream)
  \/ configureAudioSettings(EnvStream)
  \/ speakText(EnvStream)
  \/ DrainTimerFires(EnvStream)
  \/ \E s \in Slots :
       \/ SendCompletes(EnvStream, s)
       \/ StreamCompletes(EnvStream, s)
       \/ PlayResolves(EnvStream, s)
       \/ Ended(EnvStream, s)
       \/ PauseEvent(EnvStream, s)
       \/ FadeFinish(EnvStream, s)

SpecStream == Init /\ [][NextStream]_vars

\* A service that answers in time or not at all before the 10 s timer, with
\* the answers that come too late.
EnvTimeout ==
  [calls |-> MaxCalls, live |-> MaxLiveFair, errors |-> MaxErrors,
   maxNow |-> MaxNow, configs |-> LimitInputs, texts |-> SpeakInputs,
   send |-> {"stream", "TIMEOUT", "NETWORK"}, stream |-> BytesStreams,
   play |-> {"accepted"}, markStale |-> FALSE, markEvict |-> FALSE,
   markBorn |-> FALSE, markRetry |-> FALSE, leaks |-> 0, saturate |-> FALSE,
   lazy |-> FALSE, late |-> MaxLate, timeouts |-> MaxTimeouts, markGame |-> FALSE, aws |-> {DefaultAwsConfig}]

NextTimeout ==
  \/ \E s \in Slots : Reap(s)
  \/ initializePollyClient(EnvTimeout)
  \/ configureAudioSettings(EnvTimeout)
  \/ speakText(EnvTimeout)
  \/ DrainTimerFires(EnvTimeout)
  \/ LateSendSettles(EnvTimeout)
  \/ \E s \in Slots :
       \/ SendCompletes(EnvTimeout, s)
       \/ StreamCompletes(EnvTimeout, s)
       \/ PlayResolves(EnvTimeout, s)
       \/ Ended(EnvTimeout, s)
       \/ PauseEvent(EnvTimeout, s)
       \/ FadeFinish(EnvTimeout, s)

SpecTimeout == Init /\ [][NextTimeout]_vars

\* A caller that passes texts around the length limit, directly and through
\* the backlog, to a service that answers or fails.
EnvText ==
  [calls |-> MaxCallsText, live |-> MaxCallsText, errors |-> MaxErrors,
   maxNow |-> MaxNow, configs |-> LimitInputs,
   texts |-> SpeakInputs \cup LongInputs, send |-> {"stream", "NETWORK"},
   stream |-> BytesStreams, play |-> {"accepted"}, markStale |-> FALSE,
   markEvict |-> FALSE, markBorn |-> FALSE, markRetry |-> FALSE,
   leaks |-> 0, saturate |-> FALSE, lazy |-> FALSE, late |-> 0, timeouts |-> MaxTimeouts, markGame |-> FALSE, aws |-> {DefaultAwsConfig}]

NextText ==
  \/ \E s \in Slots : Reap(s)
  \/ initializePollyClient(EnvText)
  \/ configureAudioSettings(EnvText)
  \/ speakText(EnvText)
  \/ DrainTimerFires(EnvText)
  \/ \E s \in Slots :
       \/ SendCompletes(EnvText, s)
       \/ StreamCompletes(EnvText, s)
       \/ PlayResolves(EnvText, s)
       \/ Ended(EnvText, s)
       \/ PauseEvent(EnvText, s)
       \/ FadeFinish(EnvText, s)

SpecText == Init /\ [][NextText]_vars

\* A caller that configures the audio settings with values in and out of
\* range around a single request.
EnvConfig ==
  [calls |-> MaxCallsConfig, live |-> MaxCallsConfig, errors |-> MaxErrors,
   maxNow |-> MaxNow, configs |-> ConfigInputs, texts |-> SpeakInputs,
   send |-> {"stream", "NETWORK"}, stream |-> BytesStreams,
   play |-> {"accepted"}, markStale |-> FALSE, markEvict |-> FALSE,
   markBorn |-> FALSE, markRetry |-> FALSE,
   leaks |-> 0, saturate |-> FALSE, lazy |-> FALSE, late |-> 0, timeouts |-> MaxTimeouts, markGame |-> FALSE, aws |-> {DefaultAwsConfig}]

NextConfig ==
  \/ \E s \in Slots : Reap(s)
  \/ initializePollyClient(EnvConfig)
  \/ configureAudioSettings(EnvConfig)
  \/ speakText(EnvConfig)
  \/ DrainTimerFires(EnvConfig)
  \/ \E s \in Slots :
       \/ SendCompletes(EnvConfig, s)
       \/ StreamCompletes(EnvConfig, s)
       \/ PlayResolves(EnvConfig, s)
       \/ Ended(EnvConfig, s)

SpecConfig == Init /\ [][NextConfig]_vars

\* An embedding that initializes the client with complete and incomplete
\* configurations around a single request.
EnvInit ==
  [calls |-> MaxCallsInit, live |-> MaxCallsInit, errors |-> MaxErrors,
   maxNow |-> MaxNow, configs |-> LimitInputs, texts |-> SpeakInputs,
   send |-> {"stream", "CREDENTIALS"}, stream |-> BytesStreams,
   play |-> {"accepted"}, markStale |-> FALSE, markEvict |-> FALSE,
   markBorn |-> FALSE, markRetry |-> FALSE,
   leaks |-> 0, saturate |-> FALSE, lazy |-> FALSE, late |-> 0, timeouts |-> MaxTimeouts, markGame |-> FALSE, aws |-> AwsConfigs]

NextInit ==
  \/ \E s \in Slots : Reap(s)
  \/ initializePollyClient(EnvInit)
  \/ speakText(EnvInit)
  \/ DrainTimerFires(EnvInit)
  \/ \E s \in Slots :
       \/ SendCompletes(EnvInit, s)
       \/ StreamCompletes(EnvInit, s)
       \/ PlayResolves(EnvInit, s)
       \/ Ended(EnvInit, s)

SpecInit == Init /\ [][NextInit]_vars

\* No stopAllAudio, a service that answers or times out, a browser that
\* plays; every timer fires, every await settles and every element that plays
\* reaches its end. The caller goes on calling speakText without end.
EnvLive ==
  [calls |-> MaxCalls, live |-> MaxLiveFair, errors |-> MaxErrors, maxNow |-> MaxNow,
   configs |-> LimitInputs, texts |-> PositiveMessages, send |-> {"stream", "TIMEOUT"},
   stream |-> BytesStreams, play |-> {"accepted"},
   markStale |-> FALSE, markEvict |-> FALSE, markBorn |-> FALSE, markRetry |-> FALSE,
   leaks |-> 0, saturate |-> TRUE, lazy |-> TRUE, late |-> 0, timeouts |-> MaxTimeouts, markGame |-> FALSE, aws |-> {DefaultAwsConfig}]

NextLive ==
  \/ \E s \in Slots : Reap(s)
  \/ initializePollyClient(EnvLive)
  \/ configureAudioSettings(EnvLive)
  \/ speakText(EnvLive)
  \/ DrainTimerFires(EnvLive)
  \/ PacingDone(EnvLive)
  \/ \E s \in Slots :
       \/ SendCompletes(EnvLive, s)
       \/ StreamCompletes(EnvLive, s)
       \/ PlayResolves(EnvLive, s)
       \/ Ended(EnvLive, s)
       \/ MediaError(EnvLive, s)
       \/ PauseEvent(EnvLive, s)
       \/ FadeFinish(EnvLive, s)

\* setTimeout callbacks run, promises of the service, of the stream reader
\* and of play() settle, fade intervals tick, queued events are dispatched
\* and playback that goes on reaches the end of the audio.
FairLive ==
  /\ WF_vars(\E s \in Slots : Reap(s))
  /\ WF_vars(DrainTimerFires(EnvLive))
  /\ WF_vars(PacingDone(EnvLive))
  /\ \A s \in Slots :
       /\ WF_vars(SendCompletes(EnvLive, s))
       /\ WF_vars(StreamCompletes(EnvLive, s))
       /\ WF_vars(PlayResolves(EnvLive, s))
       /\ WF_vars(Ended(EnvLive, s))
       /\ WF_vars(PauseEvent(EnvLive, s))
       /\ WF_vars(FadeFinish(EnvLive, s))

SpecLive == Init /\ [][NextLive]_vars /\ FairLive

\* The page of the game, loaded with or without credentials: the player
\* starts, clicks and restarts; the thoughts are spawned by the intervals and
\* removed by their timers; the positive ones are spoken.
EnvGame ==
  [calls |-> MaxCallsGame, live |-> 1, errors |-> MaxErrors, maxNow |-> MaxNow,
   configs |-> {GameAudioSettings}, texts |-> PositiveMessages, send |-> {"stream"},
   stream |-> BytesStreams, play |-> {"accepted"},
   markStale |-> FALSE, markEvict |-> FALSE, markBorn |-> FALSE, markRetry |-> FALSE,
   leaks |-> 0, saturate |-> FALSE, lazy |-> FALSE, late |-> 0, timeouts |-> MaxTimeouts, markGame |-> FALSE, aws |-> {DefaultAwsConfig,
            [DefaultAwsConfig EXCEPT !.accessKeyId = [isString |-> FALSE, chars |-> <<>>]]}]

\* The state once app.js has run its top level.
InitGame ==
  \E config \in EnvGame.aws :
    LET st == LoadApp([InitState EXCEPT !.config = config])
    IN /\ awsConfig = st.config
       /\ pollyClient = st.client
       /\ ttsErrorCount = st.errCount
       /\ lastErrorTime = st.lastErr
       /\ activeAudioElements = st.active
       /\ audioQueue = st.queue
       /\ isProcessingQueue = st.processing
       /\ audioSettings = st.settings
       /\ performanceMetrics = st.metrics
       /\ now = st.now
       /\ drainTimers = st.timers
       /\ drainSleeping = st.sleeping
       /\ slot = st.slot
       /\ rejected = st.rejected
       /\ pollyInitialized = st.polly
       /\ gameState = st.game
       /\ thoughts = st.thoughts
       /\ gameTimers = st.gameTimers
       /\ lateSends = st.late

NextGame ==
  \/ \E s \in Slots : Reap(s)
  \/ startGame(EnvGame)
  \/ startThoughtSpawning(EnvGame)
  \/ SpawnIntervalFires(EnvGame)
  \/ clickThought(EnvGame)
  \/ RemovalFires(EnvGame)
  \/ RemoveTimeoutFires(EnvGame)
  \/ endGame(EnvGame)
  \/ restartGame(EnvGame)
  \/ GameTick(EnvGame)
  \/ \E s \in Slots :
       \/ SendCompletes(EnvGame, s)
       \/ StreamCompletes(EnvGame, s)
       \/ PlayResolves(EnvGame, s)
       \/ Ended(EnvGame, s)
       \/ MediaError(EnvGame, s)
       \/ PauseEvent(EnvGame, s)

SpecGame == InitGame /\ [][NextGame]_vars

\* The page of the game without credentials, so without speech: the player
\* starts, wins and restarts in any order and at any pace, with up to two
\* delayed calls of a kind pending and the delayed calls of each game marked.
EnvTimers ==
  [calls |-> MaxCallsGame, live |-> 1, errors |-> MaxErrors, maxNow |-> MaxNow,
   configs |-> {GameAudioSettings}, texts |-> PositiveMessages, send |-> {"stream"},
   stream |-> BytesStreams, play |-> {"accepted"},
   markStale |-> FALSE, markEvict |-> FALSE, markBorn |-> FALSE, markRetry |-> FALSE,
   leaks |-> 1, saturate |-> FALSE, lazy |-> FALSE, late |-> 0,
   timeouts |-> MaxTimeouts + 1, markGame |-> TRUE,
   aws |-> {[DefaultAwsConfig EXCEPT
               !.accessKeyId = [isString |-> FALSE, chars |-> <<>>]]}]

InitTimers ==
  \E config \in EnvTimers.aws :
    LET st == LoadApp([InitState EXCEPT !.config = config])
    IN /\ awsConfig = st.config
       /\ pollyClient = st.client
       /\ ttsErrorCount = st.errCount
       /\ lastErrorTime = st.lastErr
       /\ activeAudioElements = st.active
       /\ audioQueue = st.queue
       /\ isProcessingQueue = st.processing
       /\ audioSettings = st.settings
       /\ performanceMetrics = st.metrics
       /\ now = st.now
       /\ drainTimers = st.timers
       /\ drainSleeping = st.sleeping
       /\ slot = st.slot
       /\ rejected = st.rejected
       /\ pollyInitialized = st.polly
       /\ gameState = st.game
       /\ thoughts = st.thoughts
       /\ gameTimers = st.gameTimers
       /\ lateSends = st.late

NextTimers ==
  \/ startGame(EnvTimers)
  \/ startThoughtSpawning(EnvTimers)
  \/ SpawnIntervalFires(EnvTimers)
  \/ clickThought(EnvTimers)
  \/ RemovalFires(EnvTimers)
  \/ RemoveTimeoutFires(EnvTimers)
  \/ endGame(EnvTimers)
  \/ restartGame(EnvTimers)
  \/ GameTick(EnvTimers)

SpecTimers == InitTimers /\ [][NextTimers]_vars

\* ------------------------------------------------------------------ claims

\* C1: in every reachable state the active set holds at most
\* maxConcurrentAudio resources.
ActiveWithinLimit ==
  Len(activeAudioElements) <= audioSettings.maxConcurrentAudio

\* The circuit breaker is Open: the count is at the threshold and the cooldown
\* has not elapsed.
BreakerOpen ==
  /\ ttsErrorCount >= MAX_ERROR_COUNT
  /\ ~(lastErrorTime # NoTime /\ now - lastErrorTime > ERROR_RESET_TIME)

\* A request starts its remote call in this step.
StartsSynthesis(s) == slot[s].pc # "sending" /\ slot'[s].pc = "sending"

\* C2: no step taken while the circuit breaker is Open starts a remote
\* synthesis call, neither for a direct request nor for one drained from the
\* backlog.
NoSynthesisWhileOpen ==
  [][\A s \in Slots : StartsSynthesis(s) => ~BreakerOpen]_vars

\* C3: with the failure count at 5 or more, a speakText call made while
\* now - lastErrorTime <= 300000 changes nothing but the request counter (no
\* remote call, no backlog entry); a call with valid text and a client made
\* after more than 300000 ms is admitted (sent or queued) and leaves the
\* failure count at 0.
BreakerGate ==
  ttsErrorCount >= MAX_ERROR_COUNT =>
    \A text \in SpeakInputs :
      IF now - lastErrorTime <= ERROR_RESET_TIME
      THEN SpeakText(EnvBreaker, Cur, text, 1) =
             [Cur EXCEPT !.metrics.totalRequests = @ + 1]
      ELSE \A s \in FreeSlots(EnvBreaker) :
             ValidText(text) /\ pollyClient =>
               LET after == SpeakText(EnvBreaker, Cur, text, s)
               IN /\ after.errCount = 0
                  /\ after.slot[s].pc \in {"sending", "queued"}

\* The cooldown has passed, a call was admitted and the count is back at 0.
BreakerGateWitness ==
  /\ now - TickMs > ERROR_RESET_TIME
  /\ ttsErrorCount = 0
  /\ performanceMetrics.totalRequests > MAX_ERROR_COUNT
  /\ \E s \in Slots : slot[s].pc = "sending"

\* C4: the blob URL of every audio element is revoked at most once, and
\* exactly once by the time nothing refers to the element any more.
ReleasedExactlyOnce ==
  \A s \in Slots :
    /\ slot[s].revoked <= 1
    /\ Garbage(s) => slot[s].revoked = 1

\* C5: the backlog changes only by an entry joining at its end, by its head
\* leaving, or by being cleared by stopAllAudio, and a queued request that
\* starts synthesis is the head: entries leave in the order they joined.
BacklogFifo ==
  [][/\ \/ audioQueue' = audioQueue
        \/ \E s \in Slots \ Range(audioQueue) : audioQueue' = Append(audioQueue, s)
        \/ audioQueue # <<>> /\ audioQueue' = Tail(audioQueue)
        \/ audioQueue' = <<>> /\ activeAudioElements' = <<>> /\ ~isProcessingQueue'
     /\ \A s \in Slots :
          slot[s].pc = "queued" /\ slot'[s].pc = "sending" =>
            s = Head(audioQueue) /\ audioQueue' = Tail(audioQueue)]_vars

\* The head of a backlog of two was handed to synthesis, the other waits.
BacklogFifoWitness ==
  \E s, t \in Slots :
    /\ slot[s].pc = "sending" /\ slot[s].viaQueue
    /\ audioQueue = <<t>> /\ s < t

\* C6: a speakText call is admitted directly only when no request waits in
\* the backlog (a later call never overtakes a queued one).
NoOvertaking ==
  [][\A s \in Slots :
       slot[s].pc = "free" /\ slot'[s].pc = "sending" => audioQueue = <<>>]_vars

\* Requests admitted and not yet in the active set.
InFlight == {s \in Slots : slot[s].pc \in {"sending", "reading"}}

\* C7: a speakText call proceeds to synthesis only if the requests already
\* admitted (in flight or in the active set) are fewer than
\* maxConcurrentAudio; otherwise it is queued.
AdmissionIndivisible ==
  [][\A s \in Slots :
       slot[s].pc = "free" /\ slot'[s].pc = "sending" =>
         Cardinality(InFlight) + Len(activeAudioElements')
           < audioSettings.maxConcurrentAudio]_vars

\* C8: a stopAllAudio step leaves the active set and the backlog empty and
\* the drain flag clear, and stopAllAudio run again on the state it left
\* leaves that state.
StopAllIdempotent ==
  [][stopAllAudio(EnvAll) =>
       /\ activeAudioElements' = <<>>
       /\ audioQueue' = <<>>
       /\ ~isProcessingQueue'
       /\ StopAll(Cur, FALSE)' = Cur']_vars

\* stopAllAudio has stopped a playing element: it is rewound, its pause event
\* is pending, and the sets are empty.
StopAllWitness ==
  /\ activeAudioElements = <<>> /\ audioQueue = <<>> /\ ~isProcessingQueue
  /\ \E s \in Slots : slot[s].rewound /\ slot[s].pauseEvt

\* C9: no request issued before a stopAllAudio call has its element in the
\* active set afterwards.
StaleNeverActive ==
  \A s \in Range(activeAudioElements) : ~slot[s].stale

\* C10: a request queued at limit 1 behind the one playing element stays in
\* the backlog, with the fade-out of that element running, for as long as the
\* element is in the active set; once the element is out of the active set
\* its blob URL has been revoked. So the new element is created and played
\* only after the removal and the release.
EvictedBeforePlaying ==
  \A b \in Slots :
    LET a == slot[b].evicts
    IN a # 0 =>
         /\ a \in Range(activeAudioElements) =>
              slot[a].fades >= 1 /\ slot[b].pc = "queued"
         /\ a \notin Range(activeAudioElements) =>
              slot[a].revoked >= 1 /\ ~Playing(a)

\* The new element plays while the evicted one, removed and released, still
\* has its pause event pending.
EvictedWitness ==
  \E b \in Slots :
    /\ slot[b].evicts # 0
    /\ b \in Range(activeAudioElements) /\ Playing(b)
    /\ slot[slot[b].evicts].revoked >= 1

\* C11: the element a step starts to fade out is the member of the active set
\* that was created earliest: no element created before it is in the active
\* set, also when an element joined the set late through a gesture retry.
EvictsOldest ==
  [][\A s \in Slots :
       slot'[s].fades > slot[s].fades =>
         \A t \in Range(activeAudioElements') : t \notin slot[s].elders]_vars

\* C12: while pollyClient is null (a CREDENTIALS failure set it so), a
\* speakText call with any input changes nothing but the request counter, no
\* step starts a remote call, and the only step that sets pollyClient again is
\* initializePollyClient: resetTtsErrors leaves it null.
DisabledUntilInitialize ==
  [][~pollyClient =>
       /\ \A text \in SpeakInputs :
            SpeakText(EnvBreaker, Cur, text, 1) =
              [Cur EXCEPT !.metrics.totalRequests = @ + 1]
       /\ \A s \in Slots : ~StartsSynthesis(s)
       /\ pollyClient' => initializePollyClient(EnvBreaker)
       /\ resetTtsErrors(EnvBreaker) => ~pollyClient']_vars

\* A CREDENTIALS failure has set pollyClient to null and recorded the one
\* failure; a second speakText call was made and nothing is in flight.
DisabledWitness ==
  /\ ~pollyClient /\ ttsErrorCount = 1
  /\ performanceMetrics.totalRequests = 2
  /\ performanceMetrics.successfulRequests = 0
  /\ \A s \in Slots : slot[s].pc = "free"

\* C13: no promise returned by speakText is ever rejected, whatever the input
\* and however the remote call, the stream or the playback fail, for a request
\* sent directly and for one drained from the backlog.
NeverRejects == ~rejected

\* Two failures were recorded and one request plays or has played; every
\* request has settled and no promise was rejected.
NeverRejectsWitness ==
  /\ ~rejected
  /\ ttsErrorCount >= 2
  /\ performanceMetrics.successfulRequests >= 1
  /\ \A s \in Slots : slot[s].pc \in {"free", "settled"}

\* C14: a request failing with TIMEOUT, CREDENTIALS, NETWORK, RATE_LIMIT,
\* SERVICE or UNKNOWN adds exactly 1 to ttsErrorCount and stamps lastErrorTime;
\* a PARAMETER failure, a refused call (invalid text, no client, breaker open)
\* and a stream failure leave both unchanged, and so does the step that takes
\* a request from the backlog while pollyClient is null.
FailureAccounting ==
  [][/\ \A s \in Slots : slot[s].pc = "sending" =>
          /\ \A e \in {"TIMEOUT", "CREDENTIALS", "NETWORK", "RATE_LIMIT",
                        "SERVICE", "UNKNOWN"} :
               /\ CatchBlock(Cur, s, e).errCount = ttsErrorCount + 1
               /\ CatchBlock(Cur, s, e).lastErr = now
          /\ CatchBlock(Cur, s, "PARAMETER").errCount = ttsErrorCount
          /\ CatchBlock(Cur, s, "PARAMETER").lastErr = lastErrorTime
     /\ \A text \in SpeakInputs : Refused(Cur, text) =>
          /\ SpeakText(EnvBreaker, Cur, text, 1).errCount = ttsErrorCount
          /\ SpeakText(EnvBreaker, Cur, text, 1).lastErr = lastErrorTime
     /\ \A s \in Slots :
          \/ slot[s].pc = "reading" /\ slot'[s].pc # "reading"
          \/ slot[s].pc = "queued" /\ slot'[s].pc # "queued" /\ ~pollyClient
          => ttsErrorCount' = ttsErrorCount /\ lastErrorTime' = lastErrorTime]_vars

\* C15: a speakText call whose text is empty, only whitespace or no string
\* changes nothing but totalRequests: no remote call, no backlog entry, no
\* member of the active set, no eviction, no change of ttsErrorCount or
\* lastErrorTime.
InvalidTextFrame ==
  \A text \in SpeakInputs :
    ~(text.isString /\ \E i \in 1..Len(text.chars) : text.chars[i] # " ") =>
      SpeakText(EnvAll, Cur, text, 1) = [Cur EXCEPT !.metrics.totalRequests = @ + 1]

\* A state in which a call with valid text would start a fade-out and join
\* the backlog: a client, a closed breaker, the active set at the limit with
\* its first element playing, and a call made before.
InvalidTextWitness ==
  /\ pollyClient /\ ttsErrorCount < MAX_ERROR_COUNT
  /\ performanceMetrics.totalRequests >= 1
  /\ Len(activeAudioElements) >= audioSettings.maxConcurrentAudio
  /\ Playing(Head(activeAudioElements))
  /\ slot[Head(activeAudioElements)].fades = 0

\* The first maxTextLength units of a text.
FirstUnits(cs) == SubSeq(cs, 1, Min(Len(cs), maxTextLength))

\* t is cs without the blanks at its two ends.
IsTrimOf(t, cs) ==
  /\ t = <<>> \/ (t[1] # " " /\ t[Len(t)] # " ")
  /\ \E i \in 0..(Len(cs) - Len(t)) :
       /\ \A k \in 1..i : cs[k] = " "
       /\ \A k \in (i + Len(t) + 1)..Len(cs) : cs[k] = " "
       /\ t = SubSeq(cs, i + 1, i + Len(t))

\* C16 as stated: the Text sent for a text longer than 3000 units is exactly
\* its first 3000 units, and a text of at most 3000 units is not shortened by
\* the length check.
SentFirstUnits ==
  \A s \in Slots : slot[s].pc = "sending" =>
    IF Len(slot[s].text) > maxTextLength
    THEN slot[s].sent = FirstUnits(slot[s].text)
    ELSE Truncate(slot[s].text) = slot[s].text

\* C16, amended: the Text sent is the first 3000 units of the text (the whole
\* text when it has at most 3000 units) without the blanks at the two ends.
SentFirstUnitsTrimmed ==
  \A s \in Slots : slot[s].pc = "sending" =>
    IsTrimOf(slot[s].sent, FirstUnits(slot[s].text))

\* A text of 3001 units whose unit 3000 is a blank was taken from the backlog
\* and sent as its first 2999 units.
SentTrimmedWitness ==
  \E s \in Slots :
    /\ slot[s].pc = "sending" /\ slot[s].viaQueue
    /\ Len(slot[s].text) > maxTextLength
    /\ Len(slot[s].sent) = maxTextLength - 1

\* C17: when the stream of a response yields no bytes (no chunk, or only
\* empty chunks), the request ends without a rejected promise, without an
\* audio element, with the active set, ttsErrorCount and lastErrorTime as
\* they were.
ZeroByteStream ==
  \A s \in Slots : slot[s].pc = "reading" =>
    \A stream \in StreamInputs, play \in PlayOutcomes :
      (~stream.fails /\ \A i \in 1..Len(stream.chunks) : stream.chunks[i] = 0) =>
        LET after == AfterStream(EnvAll, Cur, s, stream, play)
        IN /\ ~after.rejected
           /\ after.slot[s] = FreeSlot
           /\ after.active = activeAudioElements
           /\ after.errCount = ttsErrorCount
           /\ after.lastErr = lastErrorTime

\* A request taken from the backlog awaits its stream while another element
\* is in the active set.
ZeroByteWitness ==
  \E s \in Slots :
    /\ slot[s].pc = "reading" /\ slot[s].viaQueue
    /\ activeAudioElements # <<>>

\* C18: in every state maxConcurrentAudio is in [1, 10], defaultVolume in
\* [0, 1] (tenths: [0, 10]), fadeOutDuration in [0, 5000] and
\* queueProcessingDelay is not negative, and a configureAudioSettings step
\* changes a field only to the value passed, clamped.
SettingsInRange ==
  [][/\ audioSettings'.maxConcurrentAudio \in 1..10
     /\ audioSettings'.defaultVolume \in 0..10
     /\ audioSettings'.fadeOutDuration \in 0..5000
     /\ audioSettings'.queueProcessingDelay >= 0
     /\ audioSettings' # audioSettings =>
          \E settings \in ConfigInputs :
            \A k \in DOMAIN audioSettings :
              IF k \in DOMAIN settings
              THEN \/ audioSettings'[k] = settings[k]
                   \/ audioSettings'[k] \in {0, 1, 10, 5000}
              ELSE audioSettings'[k] = audioSettings[k]]_vars

\* The field is undefined, empty or holds only blanks.
Blank(v) == ~(v.isString /\ \E i \in 1..Len(v.chars) : v.chars[i] # " ")

\* C19 as stated: initializePollyClient with the access key, the secret key
\* or the region missing or blank leaves an unset client unset, so that the
\* next speakText changes nothing but the request counter.
InitializeNeedsAll ==
  \A config \in AwsConfigs :
    Blank(config.accessKeyId) \/ Blank(config.secretAccessKey)
      \/ Blank(config.region) =>
      LET after == InitializePollyClient([Cur EXCEPT !.config = config])
      IN ~pollyClient =>
           /\ ~after.client
           /\ \A text \in SpeakInputs :
                SpeakText(EnvInit, after, text, 1) =
                  [after EXCEPT !.metrics.totalRequests = @ + 1]

\* C19, amended: with the access key or the secret key missing or blank,
\* initializePollyClient changes nothing (an unset client stays unset and the
\* next speakText changes nothing but the request counter); with both keys
\* present it creates the client, with the region 'us-east-1' in place of a
\* missing or blank one.
InitializeNeedsKeys ==
  \A config \in AwsConfigs :
    LET before == [Cur EXCEPT !.config = config]
        after == InitializePollyClient(before)
    IN IF Blank(config.accessKeyId) \/ Blank(config.secretAccessKey)
       THEN /\ after = before
            /\ ~pollyClient =>
                 \A text \in SpeakInputs :
                   SpeakText(EnvInit, after, text, 1) =
                     [after EXCEPT !.metrics.totalRequests = @ + 1]
       ELSE /\ after.client
            /\ after.config.region =
                 IF Blank(config.region) THEN DefaultAwsConfig.region
                 ELSE config.region

\* initializePollyClient was called with a blank secret key, the client is
\* unset and a speakText call was made: nothing is in flight.
InitializeWitness ==
  /\ ~pollyClient
  /\ awsConfig.secretAccessKey.chars = <<" ">>
  /\ performanceMetrics.totalRequests >= 1
  /\ \A s \in Slots : slot[s].pc = "free"

\* C20: an element whose play() was refused with NotAllowedError keeps its
\* blob URL unrevoked while it waits for the gesture or for the outcome of
\* the retry, as long as the 30 s timer has not fired.
KeptForRetry ==
  \A s \in Slots :
    slot[s].expiry /\ (slot[s].listening # {} \/ slot[s].retry) =>
      slot[s].revoked = 0

\* C21: playOnInteraction runs at most once for an element, and only while
\* the 30 s timer of the element is pending; when the timer fires the
\* listeners are gone and the blob URL has been revoked, so no gesture after
\* it starts a retry.
RetriedAtMostOnce ==
  [][\A s \in Slots :
       /\ slot'[s].retries <= 1
       /\ slot'[s].retries > slot[s].retries =>
            slot[s].expiry /\ slot'[s].listening = {}
       /\ slot[s].expiry /\ ~slot'[s].expiry =>
            slot'[s].listening = {} /\ slot'[s].revoked >= 1
       /\ slot'[s].listening # {} => slot'[s].expiry]_vars

\* An element was retried once, its retry has settled and its 30 s timer has
\* fired.
RetriedWitness ==
  \E s \in Slots :
    slot[s].retries = 1 /\ ~slot[s].retry /\ ~slot[s].expiry

\* C22: the promise speakText returned for a request has resolved once the
\* request is in the backlog or its playback was started, and not before: a
\* queued request does not wait for the drain loop with its promise pending.
ResolvedWhenQueued ==
  \A s \in Slots :
    slot[s].pc # "free" => (slot[s].resolved <=> slot[s].pc \in {"queued", "settled"})

\* The game is over or was restarted: nothing plays and no thought is active.
GameOver == ~gameState.isPlaying /\ gameState.activeThoughts = {}

\* C23: a positive thought is never removed automatically: it has no removal
\* timer and leaves the active thoughts only once it was clicked, or when
\* the game ends or restarts. A negative thought that is not clicked has its
\* 5 s timer pending and leaves them when 5 s have passed since it was
\* spawned (or with the game); no time passes beyond the 5 s while it stays.
PositiveStays ==
  [][\A t \in Thoughts :
       /\ t \in gameState.activeThoughts /\ t \notin gameState'.activeThoughts =>
            \/ thoughts[t].clicked
            \/ GameOver'
            \/ ~thoughts[t].isPositive /\ thoughts[t].age >= AutoRemoveMs
       /\ t \in gameState'.activeThoughts /\ ~thoughts'[t].clicked =>
            (thoughts'[t].removeTimeout <=> ~thoughts'[t].isPositive)
       /\ /\ t \in gameState.activeThoughts /\ t \in gameState'.activeThoughts
          /\ ~thoughts[t].isPositive /\ ~thoughts'[t].clicked
          /\ thoughts[t].age >= AutoRemoveMs
          => \A u \in Thoughts : thoughts'[u].age <= thoughts[u].age]_vars

\* A positive thought nobody clicked is still active 5 s after it was spawned.
PositiveStaysWitness ==
  \E t \in Thoughts :
    /\ t \in gameState.activeThoughts
    /\ thoughts[t].isPositive /\ ~thoughts[t].clicked
    /\ thoughts[t].age >= AutoRemoveMs

\* C24: at most one fade-out is in progress on an audio element: in every
\* state each element has at most one running fadeInterval.
OneFadePerElement == \A s \in Slots : slot[s].fades <= 1

\* The runs of processAudioQueue that have set isProcessingQueue and have not
\* left their loop: each one awaits processAudioRequest or its pacing delay.
DrainLoops == drainSleeping + Cardinality({s \in Slots : slot[s].viaQueue})

\* C25: at most one drain loop is active at any time.
OneDrainLoop == DrainLoops <= 1

\* C26: no wake-up is lost: whenever the backlog is not empty a drain loop
\* is running or a call of processAudioQueue is pending on a timer, and a
\* loop that ends with entries in the backlog leaves such a timer.
NoLostWakeup ==
  [][/\ audioQueue' # <<>> => DrainLoops' > 0 \/ drainTimers' > 0
     /\ DrainLoops' < DrainLoops /\ audioQueue' # <<>> => drainTimers' > 0]_vars

\* Entries wait in the backlog, no loop runs and the next attempt is
\* scheduled.
NoLostWakeupWitness ==
  /\ audioQueue # <<>> /\ DrainLoops = 0 /\ ~isProcessingQueue
  /\ drainTimers > 0
  /\ Len(activeAudioElements) >= audioSettings.maxConcurrentAudio

\* C27: every queued request is eventually taken from the backlog and handed
\* to synthesis, when stopAllAudio is not called, remote calls and stream
\* reads complete and every active element ends or is faded out.
QueuedIsDrained ==
  \A s \in Slots : (slot[s].pc = "queued") ~> (slot[s].pc \notin {"queued", "free"})

\* C28: ttsErrorCount counts consecutive failures: a step in which a
\* synthesis succeeds (its playback has started) leaves the count at 0, so
\* that the breaker opens only after 5 failures with no success between them.
CountsConsecutive ==
  [][performanceMetrics'.successfulRequests > performanceMetrics.successfulRequests
       => ttsErrorCount' = 0]_vars

\* The breaker is open and its cooldown is over: the next check closes it.
CooldownOver == ttsErrorCount >= MAX_ERROR_COUNT /\ CooldownElapsed(Cur)

\* C29 as stated: the queries getTtsStatus, isPollyAvailable and
\* getAudioStatus leave ttsErrorCount and lastErrorTime unchanged in every
\* state.
QueriesKeepBreaker ==
  \A after \in {GetTtsStatus(Cur), IsPollyAvailable(Cur), GetAudioStatus(Cur)} :
    after.errCount = ttsErrorCount /\ after.lastErr = lastErrorTime

\* C29, amended: a step changes ttsErrorCount or lastErrorTime only by
\* recording a failure (count + 1, stamped with the clock) or by setting
\* them to 0 and null; getAudioStatus changes nothing; getTtsStatus, and
\* isPollyAvailable with a client, change nothing unless the breaker is open
\* with its cooldown over, and then they set the two to 0 and null as the
\* check of an admitted speakText does.
QueriesKeepBreakerUntilCooldown ==
  [][/\ ttsErrorCount' # ttsErrorCount \/ lastErrorTime' # lastErrorTime =>
          \/ ttsErrorCount' = ttsErrorCount + 1 /\ lastErrorTime' = now'
          \/ ttsErrorCount' = 0 /\ lastErrorTime' = NoTime
     /\ GetAudioStatus(Cur) = Cur
     /\ GetTtsStatus(Cur) =
          IF CooldownOver THEN [Cur EXCEPT !.errCount = 0, !.lastErr = NoTime] ELSE Cur
     /\ IsPollyAvailable(Cur) =
          IF CooldownOver /\ pollyClient
          THEN [Cur EXCEPT !.errCount = 0, !.lastErr = NoTime] ELSE Cur]_vars

\* The breaker is open, the cooldown is over and there is a client: a query
\* closes the breaker.
QueriesWitness == CooldownOver /\ pollyClient

\* C30: from any state resetTtsErrors leaves ttsErrorCount = 0 and
\* lastErrorTime = null, so that the breaker is closed right after it, and it
\* leaves the client, the active set, the backlog, the settings, the metrics
\* and everything else as they were.
ResetClosesBreaker ==
  LET after == ResetTtsErrors(Cur)
  IN /\ after.errCount = 0 /\ after.lastErr = NoTime
     /\ ~TtsDisabled(after)
     /\ \A text \in SpeakInputs : ValidText(text) /\ pollyClient => ~Refused(after, text)
     /\ after.client = pollyClient /\ after.active = activeAudioElements
     /\ after.queue = audioQueue /\ after.settings = audioSettings
     /\ after.metrics = performanceMetrics
     /\ after = [Cur EXCEPT !.errCount = 0, !.lastErr = NoTime]

\* The breaker is open, with audio playing and requests in flight or queued.
ResetWitness ==
  /\ ttsErrorCount >= MAX_ERROR_COUNT /\ TtsDisabled(Cur)
  /\ activeAudioElements # <<>>
  /\ \E s \in Slots : slot[s].pc \in {"queued", "sending", "reading", "starting"}

\* The read loop stops at the read limit without the stream reporting done.
AtReadLimit(stream) ==
  /\ stream.reader /\ stream.endless
  /\ streamToUint8Array(stream).readCount = maxReads

\* C31 as stated: when the assembler makes 1000 reads without the stream
\* reporting done it throws, and the request ends without an audio element
\* and with the active set as it was, whatever chunks were read.
ReadLimitFails ==
  \A s \in Slots : slot[s].pc = "reading" =>
    \A stream \in ReaderInputs, play \in EnvStream.play :
      AtReadLimit(stream) =>
        LET after == AfterStream(EnvStream, Cur, s, stream, play)
        IN /\ streamToUint8Array(stream).threw
           /\ after.slot[s] = FreeSlot
           /\ after.active = activeAudioElements

\* C31: when the assembler makes 1000 reads without the stream reporting
\* done it stops reading; it throws only when no chunk with bytes was read,
\* and the request then ends without an audio element and with the active
\* set as it was; else it returns the bytes read so far, and the audio
\* element is created and added to the active set.
ReadLimitKeepsBytes ==
  \A s \in Slots : slot[s].pc = "reading" =>
    \A stream \in ReaderInputs, play \in EnvStream.play :
      AtReadLimit(stream) =>
        LET after == AfterStream(EnvStream, Cur, s, stream, play)
            bytes == Sum(stream.chunks) +
                       (maxReads - Len(stream.chunks)) * stream.tail
        IN IF bytes = 0
           THEN /\ streamToUint8Array(stream).threw
                /\ after.slot[s] = FreeSlot
                /\ after.active = activeAudioElements
           ELSE /\ ~streamToUint8Array(stream).threw
                /\ streamToUint8Array(stream).length = bytes
                /\ after.slot[s].el
                /\ \E i \in 1..Len(after.active) : after.active[i] = s

\* A request awaits its stream while another element is playing.
ReadLimitWitness ==
  \E s, t \in Slots :
    /\ slot[s].pc = "reading" /\ Playing(t)
    /\ \E stream \in EnvStream.stream :
         AtReadLimit(stream) /\ ~streamToUint8Array(stream).threw

\* C32: whenever streamToUint8Array got a reader from the stream, the reader
\* is released when the function returns or throws: after the stream reported
\* done, after a failing read, at the read limit, and when nothing with bytes
\* was read; without a reader nothing is released.
ReaderReleased ==
  \A s \in Slots : slot[s].pc = "reading" =>
    \A stream \in ReaderInputs :
      LET result == streamToUint8Array(stream)
      IN /\ result.acquired = stream.reader
         /\ result.released = result.acquired

\* A request taken from the backlog awaits a stream; among the streams it may
\* get are one that ends with bytes, one whose read fails, one that reaches
\* the read limit and one that ends without bytes.
ReaderWitness ==
  \E s \in Slots :
    /\ slot[s].pc = "reading" /\ slot[s].viaQueue
    /\ \E stream \in EnvStream.stream : ~streamToUint8Array(stream).threw
    /\ \E stream \in EnvStream.stream :
         stream.fails /\ streamToUint8Array(stream).acquired
    /\ \E stream \in EnvStream.stream : AtReadLimit(stream)
    /\ \E stream \in EnvStream.stream :
         /\ ~stream.fails /\ ~stream.endless
         /\ streamToUint8Array(stream).acquired
         /\ streamToUint8Array(stream).threw

\* C33: when the page is hidden at the first playback attempt, the request
\* goes on as after a NotAllowedError of play(): the element is kept for
\* playOnInteraction, which listens for the three gestures, and the 30 s
\* timer is set.
HiddenIsBlocked ==
  \A s \in Slots : slot[s].pc = "reading" =>
    \A stream \in BytesStreams :
      LET hidden == AfterStream(EnvAll, Cur, s, stream, "hidden")
          blocked == AfterStream(EnvAll, Cur, s, stream, "blocked")
      IN /\ hidden.slot[s].listening = GestureKinds
         /\ hidden.slot[s].expiry
         /\ hidden = blocked

\* The play() promise awaited by synthesizeAndPlayAudio resolves for the
\* element of slot s in this step.
FirstPlayStarts(s) ==
  /\ slot[s].pc = "starting" /\ ~slot[s].paused /\ ~slot[s].error
  /\ slot'[s].pc = "settled" /\ slot'[s].resolved
  /\ s \in Range(activeAudioElements')

\* The play() promise of playOnInteraction resolves for the element of slot s
\* in this step: the element is added to the active set.
RetryPlayStarts(s) ==
  /\ slot[s].retry /\ ~slot'[s].retry
  /\ s \notin Range(activeAudioElements)
  /\ s \in Range(activeAudioElements')

\* successfulRequests counts the playback started by the first attempt.
FirstStartsCounted ==
  [][/\ (\A s \in Slots : FirstPlayStarts(s) =>
           performanceMetrics'.successfulRequests =
             performanceMetrics.successfulRequests + 1)
     /\ performanceMetrics'.successfulRequests #
          performanceMetrics.successfulRequests =>
            \E s \in Slots : FirstPlayStarts(s)]_vars

\* C34: totalRequests goes up by one with a call of speakText and with
\* nothing else, successfulRequests goes up by one with every element whose
\* playback starts, by the first attempt or by playOnInteraction after a
\* gesture, and with nothing else, and successfulRequests <= totalRequests.
StartsCounted ==
  [][/\ performanceMetrics'.totalRequests \in
          {performanceMetrics.totalRequests,
           performanceMetrics.totalRequests + 1}
     /\ (\A s \in Slots : FirstPlayStarts(s) \/ RetryPlayStarts(s) =>
           performanceMetrics'.successfulRequests =
             performanceMetrics.successfulRequests + 1)
     /\ performanceMetrics'.successfulRequests #
          performanceMetrics.successfulRequests =>
            \E s \in Slots : FirstPlayStarts(s) \/ RetryPlayStarts(s)
     /\ performanceMetrics'.successfulRequests <=
          performanceMetrics'.totalRequests]_vars

\* C35: in every state performanceMetrics.queuedRequests is the number of
\* entries of audioQueue, and it is not negative.
QueuedRequestsIsQueueLength ==
  /\ performanceMetrics.queuedRequests = Len(audioQueue)
  /\ performanceMetrics.queuedRequests >= 0

\* C36: when the 10 s timer wins the race against pollyClient.send(), the
\* catch block records one failure, stamped with the current time, and
\* creates no audio element; and when send() settles after that, nothing of
\* the program's state changes: no audio element, no change of the active set
\* or of the failure count.
TimeoutIsCounted ==
  [][/\ \A s \in Slots : slot[s].pc = "sending" =>
          LET after == CatchBlock(Cur, s, "TIMEOUT")
          IN /\ after.errCount = ttsErrorCount + 1
             /\ after.lastErr = now
             /\ ~after.slot[s].el
     /\ lateSends' > lateSends => ttsErrorCount' = ttsErrorCount + 1
     /\ lateSends' < lateSends =>
          /\ activeAudioElements' = activeAudioElements
          /\ slot' = slot
          /\ ttsErrorCount' = ttsErrorCount
          /\ lastErrorTime' = lastErrorTime
          /\ audioQueue' = audioQueue
          /\ performanceMetrics' = performanceMetrics]_vars

\* A send() whose race was lost is still pending, its failure is recorded,
\* and the element of another request is playing.
TimeoutWitness ==
  /\ lateSends > 0 /\ ttsErrorCount >= 1
  /\ \E s \in Slots : Playing(s) /\ s \in Range(activeAudioElements)

\* C37: in every state the blob URL of every element of the active set is
\* not revoked, the elements added by playOnInteraction after a gesture
\* included.
ActiveNotRevoked ==
  \A s \in Range(activeAudioElements) : slot[s].revoked = 0

\* C38: the promise speakText returned for a queued request is settled in the
\* end, also when stopAllAudio empties the backlog while the request waits in
\* it. The functions that settle it exist only in the entry of the backlog,
\* so this needs that no step drops the entry of a waiting request with its
\* promise pending: a queued request leaves the backlog towards synthesis, or
\* its promise is rejected in the step that takes it.
QueuedIsSettled ==
  [][\A s \in Slots :
       slot[s].pc = "queued" /\ slot'[s].pc = "free" =>
         rejected' /\ ~rejected]_vars

\* The spawn intervals of a kind that are running: the one gameState holds
\* the handle of, and the ones no handle refers to.
NegativeIntervals ==
  (IF gameState.negativeSpawnTimer = "running" THEN 1 ELSE 0) +
    gameTimers.leakedNegative
PositiveIntervals ==
  (IF gameState.positiveSpawnTimer = "running" THEN 1 ELSE 0) +
    gameTimers.leakedPositive

\* C39: in every state at most one interval spawning negative thoughts and at
\* most one spawning positive thoughts are running, and no delayed endGame or
\* startThoughtSpawning scheduled before a startGame has run while a game
\* started by that startGame or a later one was on.
OneSpawnLoopPerKind ==
  /\ NegativeIntervals <= 1
  /\ PositiveIntervals <= 1
  /\ ~gameTimers.crossed

====
